---- MODULE Spec2Model ----
(***************************************************************************)
(* Model of the research pipeline of maddaniello/market-analysis-daniele:   *)
(* AIAgentsSystem (src/ai_agents_marketing.py) with its web search,         *)
(* regex extraction, confidence scoring, thread-pool orchestration and      *)
(* aggregation, plus the extractors of competitor_analyzer.py and           *)
(* camera_commercio_scraper.py.                                             *)
(*                                                                          *)
(* Scores are Python floats.  A float is modelled exactly: a non-negative   *)
(* IEEE-754 double x is the natural number x * 2^62, kept as NL limbs of    *)
(* 15 bits (TLC integers have 32 bits), and every float operation rounds    *)
(* its exact result to 53 significant bits, ties to even.                   *)
(***************************************************************************)
EXTENDS Integers, Sequences, FiniteSets, TLC

\* ------------------------------------------------------------------------
\* Multi-limb naturals and IEEE-754 double arithmetic
\* ------------------------------------------------------------------------
Base == 2^15

ZeroN == <<0, 0, 0, 0, 0, 0>>
OneN == <<1, 0, 0, 0, 0, 0>>
\* 2^62 = 4 * Base^4 : the fixed-point image of 1.0
UnitN == <<0, 0, 0, 0, 4, 0>>
NL == Len(ZeroN)

RECURSIVE Pow2(_)
Pow2(s) == IF s = 0 THEN 1 ELSE 2 * Pow2(s - 1)

RECURSIVE SmallBitLen(_)
SmallBitLen(n) == IF n = 0 THEN 0 ELSE 1 + SmallBitLen(n \div 2)

RECURSIVE AddFrom(_, _, _, _)
AddFrom(a, b, i, c) ==
    IF i > NL THEN <<>>
    ELSE LET s == a[i] + b[i] + c
         IN <<s % Base>> \o AddFrom(a, b, i + 1, s \div Base)

AddN(a, b) == AddFrom(a, b, 1, 0)

RECURSIVE MulFrom(_, _, _, _)
MulFrom(a, k, i, c) ==
    IF i > NL THEN <<>>
    ELSE LET s == a[i] * k + c
         IN <<s % Base>> \o MulFrom(a, k, i + 1, s \div Base)

MulSmall(a, k) == MulFrom(a, k, 1, 0)

RECURSIVE DivFrom(_, _, _, _)
DivFrom(a, k, i, r) ==
    IF i = 0 THEN [q |-> <<>>, r |-> r]
    ELSE LET cur == r * Base + a[i]
             rest == DivFrom(a, k, i - 1, cur % k)
         IN [q |-> Append(rest.q, cur \div k), r |-> rest.r]

\* quotient and remainder of a by a divisor below Base
DivSmall(a, k) == DivFrom(a, k, NL, 0)

RECURSIVE TopLimb(_, _)
TopLimb(a, i) == IF i = 0 THEN 0 ELSE IF a[i] # 0 THEN i ELSE TopLimb(a, i - 1)

BitLen(a) ==
    LET t == TopLimb(a, NL)
    IN IF t = 0 THEN 0 ELSE 15 * (t - 1) + SmallBitLen(a[t])

RECURSIVE CmpFrom(_, _, _)
CmpFrom(a, b, i) ==
    IF i = 0 THEN 0
    ELSE IF a[i] > b[i] THEN 1
    ELSE IF a[i] < b[i] THEN -1
    ELSE CmpFrom(a, b, i - 1)

GeN(a, b) == CmpFrom(a, b, NL) >= 0

\* the exact value y (with a sticky lowest bit when inexact) rounded to the
\* nearest double, ties to even
RoundNearest(y) ==
    LET len == BitLen(y)
    IN IF len <= 53 THEN y
       ELSE LET s == len - 53
                d == DivSmall(y, Pow2(s))
                half == Pow2(s - 1)
                up == d.r > half \/ (d.r = half /\ d.q[1] % 2 = 1)
                q == IF up THEN AddN(d.q, OneN) ELSE d.q
            IN MulSmall(q, Pow2(s))

Sticky(d) == IF d.r # 0 /\ d.q[1] % 2 = 0 THEN AddN(d.q, OneN) ELSE d.q

FAdd(x, y) == RoundNearest(AddN(x, y))
FMulInt(k, x) == RoundNearest(MulSmall(x, k))
FDivInt(x, n) == RoundNearest(Sticky(DivSmall(x, n)))
FMin(x, y) == IF GeN(y, x) THEN x ELSE y

\* the double denoted by the decimal num/den (a literal such as 0.2, or the
\* value round(x, 2) returns for h hundredths)
FromRatio(num, den) == RoundNearest(Sticky(DivSmall(MulSmall(UnitN, num), den)))

\* Python's round(x, 2), as a number of hundredths: the exact binary value
\* of x times 100, rounded half to even
RoundHundredths(x) ==
    LET h == MulSmall(x, 100)
        hi == h[5] + Base * h[6]
        low0 == h[1] = 0 /\ h[2] = 0 /\ h[3] = 0 /\ h[4] = 0
        fl == hi \div 4
        r == hi % 4
        up == r = 3 \/ (r = 2 /\ ~low0) \/ (r = 2 /\ low0 /\ fl % 2 = 1)
    IN IF up THEN fl + 1 ELSE fl

F_1_0 == UnitN
F_0_2 == FromRatio(2, 10)
F_0_1 == FromRatio(1, 10)
F_0_8 == FromRatio(8, 10)
F_0_6 == FromRatio(6, 10)
F_0_4 == FromRatio(4, 10)

\* ------------------------------------------------------------------------
\* Python dicts and texts
\* ------------------------------------------------------------------------
\* A dict is a function on its keys; d.get(k, default) and d.update(e).
EmptyDict == [k \in {} |-> 0]
Get(d, k, default) == IF k \in DOMAIN d THEN d[k] ELSE default
Put(d, k, v) == [x \in DOMAIN d \cup {k} |-> IF x = k THEN v ELSE d[x]]
Update(d, e) == [x \in DOMAIN d \cup DOMAIN e |-> IF x \in DOMAIN e THEN e[x] ELSE d[x]]

Min(S) == CHOOSE x \in S : \A y \in S : x <= y

\* A string is a sequence of chunks; " " is a blank.  A text (a page title,
\* snippet or body) is a sequence of tokens [k, v]: an occurrence of what the
\* pattern named k matches, v being the string its group captures.
Blank == " "

RECURSIVE LStrip(_)
LStrip(s) == IF s # <<>> /\ Head(s) = Blank THEN LStrip(Tail(s)) ELSE s

RECURSIVE RStrip(_)
RStrip(s) ==
    IF s # <<>> /\ s[Len(s)] = Blank THEN RStrip(SubSeq(s, 1, Len(s) - 1)) ELSE s

\* str.strip()
Strip(s) == RStrip(LStrip(s))

\* re.search(pattern, text): the leftmost occurrence, or no match
ReSearch(kind, text) ==
    LET idx == {i \in 1..Len(text) : text[i].k = kind}
    IN IF idx = {} THEN [found |-> FALSE, group |-> <<>>]
       ELSE [found |-> TRUE, group |-> text[Min(idx)].v]

\* word in content.lower()
Contains(word, text) == \E i \in 1..Len(text) : text[i].k = word

\* the truth value of d.get(k): absent and "" are both false
Truthy(d, k) == k \in DOMAIN d /\ d[k] # <<>>

\* ------------------------------------------------------------------------
\* AIAgentsSystem: agents and their queries
\* ------------------------------------------------------------------------
AgentsToRun ==
    <<"financial_agent", "digital_agent", "competitor_agent", "company_agent",
      "social_agent">>

Agents == {AgentsToRun[i] : i \in 1..Len(AgentsToRun)}

\* the number of query templates of each agent
NumQueries(agent_name) ==
    CASE agent_name = "financial_agent" -> 7
      [] agent_name = "digital_agent" -> 5
      [] agent_name = "competitor_agent" -> 5
      [] agent_name = "company_agent" -> 5
      [] agent_name = "social_agent" -> 5

Queries(agent_name) ==
    [i \in 1..NumQueries(agent_name) |-> [agent |-> agent_name, n |-> i]]

\* results[:5]
ResultsKept == 5
Take(s, n) == SubSeq(s, 1, IF Len(s) < n THEN Len(s) ELSE n)

\* ------------------------------------------------------------------------
\* AIAgentsSystem.extract_data_from_results
\* ------------------------------------------------------------------------
ResultContent(result) ==
    Get(result, "title", <<>>) \o Get(result, "snippet", <<>>)
        \o Get(result, "content", <<>>)

\* if not extracted_data.get(field): m = re.search(...); if m: set
SetIfUnset(extracted_data, field, m, value) ==
    IF ~Truthy(extracted_data, field) /\ m.found
    THEN Put(extracted_data, field, value)
    ELSE extracted_data

\* m = re.search(...); if m: set
SetIfMatch(extracted_data, field, m, value) ==
    IF m.found THEN Put(extracted_data, field, value) ELSE extracted_data

MilioniSuffix == <<" milioni €">>

ExtractFatturato(extracted_data, content) ==
    IF Truthy(extracted_data, "fatturato") THEN extracted_data
    ELSE LET m1 == ReSearch("fatturato", content)
             m2 == ReSearch("ricavi", content)
         IN IF m1.found
            THEN Put(extracted_data, "fatturato", m1.group \o MilioniSuffix)
            ELSE IF m2.found
            THEN Put(extracted_data, "fatturato", m2.group \o MilioniSuffix)
            ELSE extracted_data

ExtractFinancial(extracted_data, content) ==
    LET piva == ReSearch("piva", content)
        d1 == SetIfUnset(extracted_data, "piva", piva, piva.group)
        d2 == ExtractFatturato(d1, content)
        dip == ReSearch("dipendenti", content)
        d3 == SetIfUnset(d2, "dipendenti", dip, dip.group)
        sede == ReSearch("sede", content)
    IN SetIfUnset(d3, "sede", sede, Strip(sede.group))

ExtractDigital(extracted_data, content) ==
    LET web == ReSearch("url", content)
        d1 == SetIfUnset(extracted_data, "website", web, web.group)
        traffic == ReSearch("traffico", content)
    IN SetIfMatch(d1, "traffic", traffic, traffic.group)

ExtractSocial(extracted_data, content) ==
    LET follower == ReSearch("follower", content)
        d1 == IF Contains("instagram", content)
              THEN SetIfMatch(extracted_data, "instagram_followers", follower,
                              follower.group)
              ELSE extracted_data
        like == ReSearch("like", content)
    IN IF Contains("facebook", content)
       THEN SetIfMatch(d1, "facebook_likes", like, like.group)
       ELSE d1

\* the body of the loop over the results
ExtractFromResult(extracted_data, result, agent_name) ==
    LET content == ResultContent(result)
    IN CASE agent_name = "financial_agent" -> ExtractFinancial(extracted_data, content)
         [] agent_name = "digital_agent" -> ExtractDigital(extracted_data, content)
         [] agent_name = "social_agent" -> ExtractSocial(extracted_data, content)
         [] OTHER -> extracted_data

RECURSIVE ExtractLoop(_, _, _)
ExtractLoop(extracted_data, results, agent_name) ==
    IF results = <<>> THEN extracted_data
    ELSE ExtractLoop(ExtractFromResult(extracted_data, Head(results), agent_name),
                     Tail(results), agent_name)

ExtractDataFromResults(results, agent_name) ==
    ExtractLoop(EmptyDict, results, agent_name)

\* a result that is not a dict: result.get(...) raises AttributeError
NotADict == [type |-> "NoneType"]
IsDict(result) == "type" \notin DOMAIN result

\* the function has no try: the first result that is not a dict ends the call
ExtractDataRaises(results) == \E i \in 1..Len(results) : ~IsDict(results[i])

\* ------------------------------------------------------------------------
\* AIAgentsSystem.perform_web_search and specialized_web_search
\* ------------------------------------------------------------------------
\* What the web does for one query: the request fails, or a result page with
\* hits comes back.  A failed request is caught inside perform_web_search,
\* which then returns []; of the hits, the first ten are read.
ResultsParsed == 10

PerformWebSearch(response) ==
    IF response.failed THEN <<>> ELSE Take(response.hits, ResultsParsed)

NewSearchResults(agent_name) ==
    [agent |-> agent_name, company |-> "company",
     searches_performed |-> <<>>, data_found |-> EmptyDict]

\* a variant in which a failed request ends the round before its entry is
\* appended
SearchQueryUncaught(search_results, query, response, agent_name) ==
    IF response.failed THEN search_results
    ELSE LET results == Take(response.hits, ResultsParsed)
             entry == [query |-> query, results_count |-> Len(results),
                       results |-> Take(results, ResultsKept)]
             extracted_data == ExtractDataFromResults(results, agent_name)
         IN [search_results EXCEPT
               !.searches_performed = Append(@, entry),
               !.data_found = IF extracted_data # EmptyDict
                              THEN Update(@, extracted_data) ELSE @]

\* one round of the loop "for query in queries"
SearchQuery(search_results, query, response, agent_name) ==
    LET results == PerformWebSearch(response)
        entry == [query |-> query, results_count |-> Len(results),
                  results |-> Take(results, ResultsKept)]
        extracted_data == ExtractDataFromResults(results, agent_name)
    IN [search_results EXCEPT
          !.searches_performed = Append(@, entry),
          !.data_found = IF extracted_data # EmptyDict
                         THEN Update(@, extracted_data) ELSE @]

RECURSIVE SearchLoop(_, _, _, _)
SearchLoop(search_results, responses, i, agent_name) ==
    IF i > NumQueries(agent_name) THEN search_results
    ELSE SearchLoop(SearchQuery(search_results, Queries(agent_name)[i],
                                responses[i], agent_name),
                    responses, i + 1, agent_name)

\* responses[i] is what the web does for the agent's i-th query
SpecializedWebSearch(agent_name, responses) ==
    SearchLoop(NewSearchResults(agent_name), responses, 1, agent_name)

\* ------------------------------------------------------------------------
\* AIAgentsSystem.calculate_confidence_score and structure_agent_response
\* ------------------------------------------------------------------------
\* a variant that forgets to cap the two sub-scores at 1.0
ConfidenceOfUncapped(f, q) ==
    RoundHundredths(FDivInt(FAdd(FMulInt(f, F_0_2), FMulInt(q, F_0_1)), 2))

\* a variant that discards a data sub-score above 1.0 instead of capping it
ConfidenceOfDroppedOverCap(f, q) ==
    LET data_score == IF GeN(F_1_0, FMulInt(f, F_0_2)) THEN FMulInt(f, F_0_2)
                      ELSE ZeroN
        search_score == FMin(FMulInt(q, F_0_1), F_1_0)
    IN RoundHundredths(FDivInt(FAdd(data_score, search_score), 2))

\* a variant that adds the two sub-scores, capped at 1.0, without halving
ConfidenceOfNotHalved(f, q) ==
    LET data_score == FMin(FMulInt(f, F_0_2), F_1_0)
        search_score == FMin(FMulInt(q, F_0_1), F_1_0)
    IN RoundHundredths(FMin(FAdd(data_score, search_score), F_1_0))

\* f = len(data_found), q = searches with results_count > 0; the result is
\* the float round(..., 2), given as its number of hundredths
ConfidenceOf(f, q) ==
    LET data_score == FMin(FMulInt(f, F_0_2), F_1_0)
        search_score == FMin(FMulInt(q, F_0_1), F_1_0)
    IN RoundHundredths(FDivInt(FAdd(data_score, search_score), 2))

\* a variant that counts every search performed, productive or not
SearchesCounted(searches_performed) == Len(searches_performed)

SearchesWithResults(searches_performed) ==
    Cardinality({i \in 1..Len(searches_performed) :
                    Get(searches_performed[i], "results_count", 0) > 0})

CalculateConfidenceScore(search_data) ==
    LET data_found == Get(search_data, "data_found", EmptyDict)
        searches_performed == Get(search_data, "searches_performed", <<>>)
    IN ConfidenceOf(Cardinality(DOMAIN data_found),
                    SearchesWithResults(searches_performed))

\* the timestamp field (datetime.now()) is left out: nothing reads it
StructureAgentResponse(agent_name, response, search_data) ==
    [agent_name |-> agent_name,
     agent_response |-> response,
     search_data |-> search_data,
     data_extracted |-> Get(search_data, "data_found", EmptyDict),
     sources_count |-> Len(Get(search_data, "searches_performed", <<>>)),
     confidence_score |-> CalculateConfidenceScore(search_data)]

ErrorMarker == [error |-> "exception"]

\* execute_agent_research: the search, then the chat completion, which either
\* answers or raises; every exception ends in the error marker
ExecuteAgentResearch(agent_name, responses, openai_raises) ==
    LET search_results == SpecializedWebSearch(agent_name, responses)
    IN IF openai_raises THEN ErrorMarker
       ELSE StructureAgentResponse(agent_name, "report", search_results)

\* ------------------------------------------------------------------------
\* AIAgentsSystem.consolidate_agents_data
\* ------------------------------------------------------------------------
\* agents_results is a dict filled in collection order: a sequence of items
\* [agent, result], one per agent name.
IsError(result) == "error" \in DOMAIN result

SectionOf(agent_name) ==
    CASE agent_name = "financial_agent" -> "financial_data"
      [] agent_name = "digital_agent" -> "digital_data"
      [] agent_name = "social_agent" -> "social_data"
      [] agent_name = "competitor_agent" -> "competitor_data"
      [] agent_name = "company_agent" -> "company_profile"

Sections ==
    {"company_profile", "financial_data", "digital_data", "social_data",
     "competitor_data"}

NewConsolidated ==
    [company_profile |-> EmptyDict, financial_data |-> EmptyDict,
     digital_data |-> EmptyDict, social_data |-> EmptyDict,
     competitor_data |-> EmptyDict, all_sources |-> <<>>]

RECURSIVE SourcesOf(_)
SourcesOf(searches) ==
    IF searches = <<>> THEN <<>>
    ELSE Get(Head(searches), "results", <<>>) \o SourcesOf(Tail(searches))

\* the body of the loop over agents_results.items()
ConsolidateItem(consolidated, item) ==
    IF IsError(item.result) THEN consolidated
    ELSE LET data_extracted == Get(item.result, "data_extracted", EmptyDict)
             search_data == Get(item.result, "search_data", EmptyDict)
             searches == Get(search_data, "searches_performed", <<>>)
             section == SectionOf(item.agent)
         IN [consolidated EXCEPT
               ![section] = Update(@, data_extracted),
               !.all_sources = @ \o SourcesOf(searches)]

\* a variant that leaves the loop at the first failed agent (break for
\* continue)
RECURSIVE ConsolidateLoopStopsAtError(_, _)
ConsolidateLoopStopsAtError(consolidated, items) ==
    IF items = <<>> \/ IsError(Head(items).result) THEN consolidated
    ELSE ConsolidateLoopStopsAtError(ConsolidateItem(consolidated, Head(items)),
                                     Tail(items))

RECURSIVE ConsolidateLoop(_, _)
ConsolidateLoop(consolidated, items) ==
    IF items = <<>> THEN consolidated
    ELSE ConsolidateLoop(ConsolidateItem(consolidated, Head(items)), Tail(items))

ConsolidateAgentsData(agents_results) ==
    ConsolidateLoop(NewConsolidated, agents_results)

\* ------------------------------------------------------------------------
\* AIAgentsSystem.calculate_quality_metrics
\* ------------------------------------------------------------------------
\* a variant that scores a failed aspect as zero instead of leaving it out
RECURSIVE AgentScoresFailedAsZero(_)
AgentScoresFailedAsZero(agents_results) ==
    IF agents_results = <<>> THEN <<>>
    ELSE LET item == Head(agents_results)
         IN <<[agent |-> item.agent,
               score |-> Get(item.result, "confidence_score", 0)]>>
                \o AgentScoresFailedAsZero(Tail(agents_results))

\* the items (agent, confidence_score) of agent_scores, in insertion order
RECURSIVE AgentScores(_)
AgentScores(agents_results) ==
    IF agents_results = <<>> THEN <<>>
    ELSE LET item == Head(agents_results)
             rest == AgentScores(Tail(agents_results))
         IN IF ~IsError(item.result)
            THEN <<[agent |-> item.agent,
                    score |-> Get(item.result, "confidence_score", 0)]>> \o rest
            ELSE rest

\* the float that round(x, 2) returned for h hundredths
FloatOfHundredths == [h \in 0..100 |-> FromRatio(h, 100)]

RECURSIVE SumSequential(_, _)
SumSequential(acc, scores) ==
    IF scores = <<>> THEN acc
    ELSE SumSequential(FAdd(acc, FloatOfHundredths[Head(scores).score]), Tail(scores))

RECURSIVE SumExact(_)
SumExact(scores) ==
    IF scores = <<>> THEN ZeroN
    ELSE AddN(FloatOfHundredths[Head(scores).score], SumExact(Tail(scores)))

\* sum(agent_scores.values()).  Before CPython 3.12 the builtin adds the floats
\* left to right; from 3.12 on it adds them with a compensation term, which
\* for up to five scores yields the correctly rounded exact sum.
PySum(scores, float_sum) ==
    IF float_sum = "sequential" THEN SumSequential(ZeroN, scores)
    ELSE RoundNearest(SumExact(scores))

QualityLevel(overall_score) ==
    IF GeN(overall_score, F_0_8) THEN "Eccellente"
    ELSE IF GeN(overall_score, F_0_6) THEN "Buona"
    ELSE IF GeN(overall_score, F_0_4) THEN "Sufficiente"
    ELSE "Limitata"

RECURSIVE SumLen(_, _)
SumLen(consolidated, keys) ==
    IF keys = {} THEN 0
    ELSE LET k == CHOOSE x \in keys : TRUE
         IN Cardinality(DOMAIN consolidated[k]) + SumLen(consolidated, keys \ {k})

\* a variant that divides by the number of agents run, not of agents scored
OverallScoreOverAllAgents(agent_scores, float_sum) ==
    IF agent_scores # <<>>
    THEN FDivInt(PySum(agent_scores, float_sum), Len(AgentsToRun))
    ELSE ZeroN

\* sum(agent_scores.values()) / len(agent_scores) if agent_scores else 0
OverallScore(agent_scores, float_sum) ==
    IF agent_scores # <<>>
    THEN FDivInt(PySum(agent_scores, float_sum), Len(agent_scores))
    ELSE ZeroN

\* overall_score is given in hundredths, as round(overall_score, 2) returns it
CalculateQualityMetrics(analysis_results, float_sum) ==
    LET agents_results == Get(analysis_results, "agents_results", <<>>)
        agent_scores == AgentScores(agents_results)
        overall_score == OverallScore(agent_scores, float_sum)
        consolidated == Get(analysis_results, "consolidated_data", EmptyDict)
        failed == {i \in 1..Len(agents_results) : IsError(agents_results[i].result)}
    IN [overall_score |-> RoundHundredths(overall_score),
        agent_scores |->
            [a \in {agent_scores[i].agent : i \in 1..Len(agent_scores)} |->
                (CHOOSE it \in {agent_scores[i] : i \in 1..Len(agent_scores)} :
                    it.agent = a).score],
        total_data_points |-> SumLen(consolidated, DOMAIN consolidated \cap Sections),
        agents_succeeded |-> Len(agents_results) - Cardinality(failed),
        agents_failed |-> Cardinality(failed),
        quality_level |-> QualityLevel(overall_score)]

\* ------------------------------------------------------------------------
\* extract_registry_data (app.py)
\* ------------------------------------------------------------------------
\* the body of the loop over the results: five guarded fields
ExtractRegistryFromResult(data, result) ==
    LET content == ResultContent(result)
        piva == ReSearch("piva", content)
        d1 == SetIfUnset(data, "piva", piva, piva.group)
        sede == ReSearch("sede", content)
        d2 == SetIfUnset(d1, "sede", sede, Strip(sede.group))
        d3 == ExtractFatturato(d2, content)
        dip == ReSearch("dipendenti", content)
        d4 == SetIfUnset(d3, "dipendenti", dip, dip.group)
        forma == ReSearch("forma_giuridica", content)
    IN SetIfUnset(d4, "forma_giuridica", forma, forma.group)

RECURSIVE RegistryLoop(_, _)
RegistryLoop(data, results) ==
    IF results = <<>> THEN data
    ELSE RegistryLoop(ExtractRegistryFromResult(data, Head(results)), Tail(results))

ExtractRegistryData(results) == RegistryLoop(EmptyDict, results)

\* ------------------------------------------------------------------------
\* CompetitorAnalyzer.extract_market_share
\* ------------------------------------------------------------------------
NonSpecificata == <<"Non specificata">>

\* the patterns, in the order they are tried
MarketSharePatterns == <<"quota_mercato", "market_share", "percento_mercato">>

RECURSIVE FirstPattern(_, _, _)
FirstPattern(patterns, text, default) ==
    IF patterns = <<>> THEN default
    ELSE LET match == ReSearch(Head(patterns), text)
         IN IF match.found THEN Strip(match.group)
            ELSE FirstPattern(Tail(patterns), text, default)

ExtractMarketShare(text) == FirstPattern(MarketSharePatterns, text, NonSpecificata)

\* ------------------------------------------------------------------------
\* CameraCommercioScraper.extract_company_data_from_ai
\* ------------------------------------------------------------------------
\* match.group(1).strip() if match else default
ExtractWithRegex(text, pattern, default) ==
    LET match == ReSearch(pattern, text)
    IN IF match.found THEN Strip(match.group) ELSE default

\* random.randint(...) printed: any number of the range
FakeNumbers == {<<"10000000000">>, <<"99999999999">>}
FakeReas == {<<"1000000">>, <<"9999999">>}

\* the fields read from the AI's text, each by a pattern of its own
CompanyFields ==
    {"piva", "codice_fiscale", "sede_legale", "comune", "provincia", "cap",
     "settore_ateco", "descrizione_attivita", "forma_giuridica",
     "capitale_sociale", "anno_costituzione", "stato_azienda", "rea", "pec"}

\* the fallback handed to extract_with_regex for each field
CompanyDefault(field, company_name, fake_piva, fake_cf, fake_rea) ==
    CASE field = "piva" -> fake_piva
      [] field = "codice_fiscale" -> fake_cf
      [] field = "sede_legale" -> <<"Via Roma 1, Milano">>
      [] field = "comune" -> <<"Milano">>
      [] field = "provincia" -> <<"MI">>
      [] field = "cap" -> <<"20121">>
      [] field = "settore_ateco" -> <<"6201">>
      [] field = "descrizione_attivita" -> <<"Servizi informatici">>
      [] field = "forma_giuridica" -> <<"SRL">>
      [] field = "capitale_sociale" -> <<"100.000">>
      [] field = "anno_costituzione" -> <<"2010">>
      [] field = "stato_azienda" -> <<"Attiva">>
      [] field = "rea" -> <<"MI-">> \o fake_rea
      [] field = "pec" -> <<company_name, "@pec.it">>

ExtractCompanyDataFromAi(ai_content, company_name, fake_piva, fake_cf, fake_rea) ==
    [field \in CompanyFields \cup {"nome_azienda"} |->
        IF field = "nome_azienda" THEN <<company_name>>
        ELSE ExtractWithRegex(ai_content, field,
                              CompanyDefault(field, company_name, fake_piva,
                                             fake_cf, fake_rea))]

\* ------------------------------------------------------------------------
\* CompetitorAnalyzer.extract_number_from_text
\* ------------------------------------------------------------------------
\* a string here is a sequence of characters
Digits == <<"0", "1", "2", "3", "4", "5", "6", "7", "8", "9">>

IsDigit(c) == \E d \in 1..10 : Digits[d] = c
DigitValue(c) == (CHOOSE d \in 1..10 : Digits[d] = c) - 1

RECURSIVE DigitsValue(_)
DigitsValue(s) ==
    IF s = <<>> THEN 0
    ELSE 10 * DigitsValue(SubSeq(s, 1, Len(s) - 1)) + DigitValue(s[Len(s)])

\* s.replace(c, '')
Remove(s, c) == LET Keep(x) == x # c IN SelectSeq(s, Keep)

\* int(s): blanks around are dropped, a sign may lead, digits must follow and
\* nothing else; anything else is a ValueError
PyInt(s) ==
    LET t == Strip(s)
        negative == t # <<>> /\ Head(t) = "-"
        body == IF negative THEN Tail(t) ELSE t
    IN IF body # <<>> /\ \A i \in 1..Len(body) : IsDigit(body[i])
       THEN [ok |-> TRUE,
             value |-> IF negative THEN 0 - DigitsValue(body)
                       ELSE DigitsValue(body)]
       ELSE [ok |-> FALSE, value |-> 0]

\* an argument of the declared type, and None in its place
Str(s) == [type |-> "str", s |-> s]
IsStr(text) == text.type = "str"

\* a variant that removes the commas only
ExtractNumberCommasOnly(text, pattern, default) ==
    IF ~IsStr(text) THEN default
    ELSE LET match == ReSearch(pattern, text.s)
             number == PyInt(Remove(match.group, ","))
         IN IF match.found /\ number.ok THEN number.value ELSE default

\* re.search on a text that is no string raises TypeError, int() on what is
\* no number raises ValueError; the bare except returns default for both
ExtractNumberFromText(text, pattern, default) ==
    IF ~IsStr(text) THEN default
    ELSE LET match == ReSearch(pattern, text.s)
             number == PyInt(Remove(Remove(match.group, ","), "."))
         IN IF match.found /\ number.ok THEN number.value ELSE default

\* ------------------------------------------------------------------------
\* State
\* ------------------------------------------------------------------------
VARIABLES
    float_sum,         \* how the interpreter's sum() adds floats
    search_data,       \* the argument of a call of calculate_confidence_score
    confidence,        \* its result in hundredths, NotComputed before the call
    analysis_results,  \* orchestrate_full_analysis: the record being built
    pc,                \* orchestrate_full_analysis: the statement reached
    task,              \* the pool: where each submitted agent task stands
    future,            \* the pool: the outcome held by each task's future
    yielded,           \* the agents whose future as_completed has handed out
    searcher,          \* specialized_web_search: the agent searching
    query_no,          \* specialized_web_search: queries run so far
    search_results,    \* specialized_web_search: the record being filled
    web_responses,     \* what the web did for each query run so far
    call,              \* a call of an extractor: the function and its input
    returned,          \* what the call returned, NotCalled before it returns
    returned_again,    \* what a second call on the same input returned
    api_key,           \* the OpenAI key as configured: unset, empty or a key
    entry,             \* the entry point invoked and its arguments
    company_ops,       \* the company-specific operations performed so far
    entry_out,         \* how the entry point ended, NotCalled before it ends
    cache,             \* CacheManager.cache: key -> (value, timestamp)
    ttl,               \* CacheManager.ttl
    clock,             \* what time.time() returns now
    last_set,          \* for each key, the value and time of its latest set
    cache_op,          \* the latest CacheManager call and what it returned
    retry,             \* a call of a retry_on_failure wrapper
    invocations,       \* the results of the wrapped function's invocations
    sleeps,            \* the arguments of the time.sleep calls made
    retry_out,         \* how the wrapper's call ended, NotCalled before
    limiter,           \* RateLimiter: max_requests and time_window
    requests,          \* RateLimiter.requests: the timestamps kept
    accepted,          \* the timestamps of all requests ever accepted
    limiter_op,        \* the latest RateLimiter call and what it returned
    assistant,         \* run_assistant_analysis: the assistant being run
    vendor_run,        \* the run as the vendor holds it
    seen,              \* run.status as last retrieved by the polling loop
    observed,          \* the latest tool calls seen in requires_action
    submitted,         \* the latest tool outputs handed to the vendor
    polls,             \* the retrieve calls made, counted up to MaxPolls
    analysis_out       \* what run_assistant_analysis returned

scoreVars == <<search_data, confidence>>
analysisVars == <<analysis_results, pc>>
poolVars == <<task, future, yielded>>
searchVars == <<searcher, query_no, search_results, web_responses>>
extractVars == <<call, returned, returned_again>>
entryVars == <<api_key, entry, company_ops, entry_out>>
cacheVars == <<cache, ttl, clock, last_set, cache_op>>
retryVars == <<retry, invocations, sleeps, retry_out>>
limiterVars == <<limiter, requests, accepted, limiter_op>>
assistantVars ==
    <<assistant, vendor_run, seen, observed, submitted, polls, analysis_out>>
laterVars == <<limiterVars, assistantVars>>
utilVars == <<entryVars, cacheVars, retryVars, laterVars>>
vars ==
    <<float_sum, search_data, confidence, analysis_results, pc, task, future,
      yielded, searcher, query_no, search_results, web_responses, call,
      returned, returned_again, api_key, entry, company_ops, entry_out, cache,
      ttl, clock, last_set, cache_op, retry, invocations, sleeps, retry_out,
      limiter, requests, accepted, limiter_op, assistant, vendor_run, seen,
      observed, submitted, polls, analysis_out>>

NotComputed == 0 - 1
NotCalled == [called |-> FALSE]
NoCacheOp == [op |-> "none"]
FloatSums == {"sequential", "compensated"}

ScoreIdle == search_data = EmptyDict /\ confidence = NotComputed
AnalysisIdle == analysis_results = EmptyDict /\ pc = "idle"
PoolIdle == task = EmptyDict /\ future = EmptyDict /\ yielded = {}
SearchIdle ==
    /\ searcher = ""
    /\ query_no = 0
    /\ search_results = EmptyDict
    /\ web_responses = <<>>
ExtractIdle ==
    call = EmptyDict /\ returned = NotCalled /\ returned_again = NotCalled
EntryIdle ==
    /\ api_key = ""
    /\ entry = EmptyDict
    /\ company_ops = <<>>
    /\ entry_out = NotCalled
CacheIdle ==
    /\ cache = EmptyDict
    /\ ttl = 0
    /\ clock = 0
    /\ last_set = EmptyDict
    /\ cache_op = NoCacheOp
RetryIdle ==
    /\ retry = EmptyDict
    /\ invocations = <<>>
    /\ sleeps = <<>>
    /\ retry_out = NotCalled
NoLimiterOp == [op |-> "none"]
NoToolCalls == [round |-> 0, tool_calls |-> <<>>]
NoToolOutputs == [round |-> 0, tool_outputs |-> <<>>]
LimiterIdle ==
    /\ limiter = EmptyDict
    /\ requests = <<>>
    /\ accepted = <<>>
    /\ limiter_op = NoLimiterOp
AssistantIdle ==
    /\ assistant = EmptyDict
    /\ vendor_run = EmptyDict
    /\ seen = ""
    /\ observed = NoToolCalls
    /\ submitted = NoToolOutputs
    /\ polls = 0
    /\ analysis_out = NotCalled
LaterIdle == LimiterIdle /\ AssistantIdle
UtilIdle == EntryIdle /\ CacheIdle /\ RetryIdle /\ LaterIdle

\* ------------------------------------------------------------------------
\* Calls of calculate_confidence_score
\* ------------------------------------------------------------------------
MaxFields == 6
MaxProductive == 11
MaxUnproductive == 1

\* a search record with f extracted fields, q searches that found results
\* and z that found none
ScoreInput(f, q, z) ==
    [data_found |-> [k \in {ToString(i) : i \in 1..f} |-> <<"1">>],
     searches_performed |->
        [i \in 1..(q + z) |-> [results_count |-> IF i <= q THEN i ELSE 0]]]

ScoreInputs ==
    {EmptyDict} \cup
    {ScoreInput(f, q, z) :
        f \in 0..MaxFields, q \in 0..MaxProductive, z \in 0..MaxUnproductive}

InitScore ==
    /\ float_sum = "sequential"
    /\ search_data \in ScoreInputs
    /\ confidence = NotComputed
    /\ AnalysisIdle
    /\ PoolIdle
    /\ SearchIdle
    /\ ExtractIdle
    /\ UtilIdle

CallConfidenceScore ==
    /\ confidence = NotComputed
    /\ confidence' = CalculateConfidenceScore(search_data)
    /\ UNCHANGED <<float_sum, utilVars, search_data, analysisVars, poolVars, searchVars, extractVars>>

NextScore == CallConfidenceScore

SpecScore == InitScore /\ [][NextScore]_vars

\* ------------------------------------------------------------------------
\* The aggregation at the end of orchestrate_full_analysis
\* ------------------------------------------------------------------------
Consolidate ==
    /\ pc = "consolidate"
    /\ analysis_results' =
          [analysis_results EXCEPT
             !.consolidated_data = ConsolidateAgentsData(analysis_results.agents_results)]
    /\ pc' = "metrics"
    /\ UNCHANGED <<float_sum, utilVars, scoreVars, poolVars, searchVars, extractVars>>

QualityMetrics ==
    /\ pc = "metrics"
    /\ analysis_results' =
          [analysis_results EXCEPT
             !.quality_metrics = CalculateQualityMetrics(analysis_results, float_sum)]
    /\ pc' = "done"
    /\ UNCHANGED <<float_sum, utilVars, scoreVars, poolVars, searchVars, extractVars>>

\* ------------------------------------------------------------------------
\* Aggregation of the results of five finished agents
\* ------------------------------------------------------------------------
\* the fields an agent's patterns can extract, each with a text it matches in
FieldTexts(agent_name) ==
    CASE agent_name = "financial_agent" ->
            << <<[k |-> "piva", v |-> <<"1">>]>>,
               <<[k |-> "fatturato", v |-> <<"1">>]>>,
               <<[k |-> "dipendenti", v |-> <<"1">>]>>,
               <<[k |-> "sede", v |-> <<"1">>]>> >>
      [] agent_name = "digital_agent" ->
            << <<[k |-> "url", v |-> <<"1">>]>>,
               <<[k |-> "traffico", v |-> <<"1">>]>> >>
      [] agent_name = "social_agent" ->
            << <<[k |-> "instagram", v |-> <<>>], [k |-> "follower", v |-> <<"1">>]>>,
               <<[k |-> "facebook", v |-> <<>>], [k |-> "like", v |-> <<"1">>]>> >>
      [] OTHER -> <<>>

RECURSIVE Flatten(_)
Flatten(ss) == IF ss = <<>> THEN <<>> ELSE Head(ss) \o Flatten(Tail(ss))

Page(url, snippet) ==
    [title |-> <<>>, url |-> url, snippet |-> snippet, content |-> <<>>]

NoHits == [failed |-> FALSE, hits |-> <<>>]
Hits(pages) == [failed |-> FALSE, hits |-> pages]

\* a web in which the agent's first q queries find one page each, the first
\* page showing f of the agent's fields
CountedWeb(agent_name, f, q) ==
    [i \in 1..NumQueries(agent_name) |->
        IF i > q THEN NoHits
        ELSE Hits(<<Page("https://x.it",
                         IF i = 1 THEN Flatten(Take(FieldTexts(agent_name), f))
                         ELSE <<>>)>>)]

MaxScored == 2

\* what an agent's task can return: the error marker, or the structured
\* response for a web with q productive queries that shows none or all of
\* the agent's fields
AgentOutcomes(agent_name) ==
    {ErrorMarker} \cup
    {ExecuteAgentResearch(agent_name, CountedWeb(agent_name, f, q), FALSE) :
        f \in {0, Len(FieldTexts(agent_name))}, q \in 0..NumQueries(agent_name)}

OutcomeTable == [a \in Agents |-> AgentOutcomes(a)]

Scored(result) == ~IsError(result) /\ result.confidence_score > 0

NewAnalysis(agents_results) ==
    [company_name |-> "company", company_url |-> "url",
     agents_results |-> agents_results,
     consolidated_data |-> EmptyDict, quality_metrics |-> EmptyDict]

InitQuality ==
    /\ float_sum \in FloatSums
    /\ ScoreIdle
    /\ PoolIdle
    /\ SearchIdle
    /\ ExtractIdle
    /\ UtilIdle
    /\ \E r1 \in OutcomeTable[AgentsToRun[1]], r2 \in OutcomeTable[AgentsToRun[2]],
          r3 \in OutcomeTable[AgentsToRun[3]], r4 \in OutcomeTable[AgentsToRun[4]],
          r5 \in OutcomeTable[AgentsToRun[5]] :
          LET r == <<r1, r2, r3, r4, r5>>
          IN /\ Cardinality({i \in 1..5 : Scored(r[i])}) <= MaxScored
             /\ analysis_results =
                   NewAnalysis([i \in 1..5 |->
                                   [agent |-> AgentsToRun[i], result |-> r[i]]])
    /\ pc = "consolidate"

NextQuality == Consolidate \/ QualityMetrics

SpecQuality == InitQuality /\ [][NextQuality]_vars

\* ------------------------------------------------------------------------
\* One agent's specialized_web_search, query by query
\* ------------------------------------------------------------------------
SMaxPages == 2

RECURSIVE SeqsUpTo(_, _)
SeqsUpTo(S, n) ==
    IF n <= 0 THEN {<<>>}
    ELSE LET shorter == SeqsUpTo(S, n - 1)
         IN shorter \cup {Append(t, x) : t \in shorter, x \in S}

Tok(kind, value) == [k |-> kind, v |-> value]

\* the snippets of the pages the web can show an agent
SnippetsFor(agent) ==
    CASE agent = "financial_agent" ->
            {<<>>,
             <<Tok("piva", <<"1">>)>>,
             <<Tok("piva", <<"2">>)>>,
             <<Tok("ricavi", <<"2">>), Tok("fatturato", <<"1">>)>>,
             <<Tok("sede", <<" ">>)>>,
             <<Tok("sede", <<"1", " ">>)>>}
      [] agent = "digital_agent" ->
            {<<>>,
             <<Tok("url", <<"1">>)>>,
             <<Tok("url", <<"2">>)>>,
             <<Tok("traffico", <<"1">>)>>,
             <<Tok("traffico", <<"2">>)>>}
      [] agent = "social_agent" ->
            {<<>>,
             <<Tok("follower", <<"1">>)>>,
             <<Tok("instagram", <<>>), Tok("follower", <<"1">>)>>,
             <<Tok("instagram", <<>>), Tok("follower", <<"2">>)>>,
             <<Tok("facebook", <<>>), Tok("like", <<"1">>)>>}
      [] OTHER ->
            {<<>>, <<Tok("piva", <<"1">>)>>}

PagesFor(agent) == {Page("https://x.it", snippet) : snippet \in SnippetsFor(agent)}

FailedRequest == [failed |-> TRUE, hits |-> <<>>]

\* what the web can do for one query when n more events (a page shown, a
\* request failing) may happen
Responses(agent, n) ==
    (IF n > 0 THEN {FailedRequest} ELSE {})
        \cup {Hits(pages) : pages \in SeqsUpTo(PagesFor(agent), n)}

RECURSIVE PagesSeen(_)
PagesSeen(searches) ==
    IF searches = <<>> THEN 0
    ELSE Head(searches).results_count + PagesSeen(Tail(searches))

FailuresSeen(responses) ==
    Cardinality({i \in 1..Len(responses) : responses[i].failed})

InitSearch ==
    /\ float_sum = "sequential"
    /\ ScoreIdle
    /\ AnalysisIdle
    /\ PoolIdle
    /\ ExtractIdle
    /\ UtilIdle
    /\ searcher \in Agents
    /\ query_no = 0
    /\ search_results = NewSearchResults(searcher)
    /\ web_responses = <<>>

\* one round of "for query in queries"
RunQuery ==
    /\ searcher \in Agents
    /\ query_no < NumQueries(searcher)
    /\ \E response \in
            Responses(searcher,
                      SMaxPages - PagesSeen(search_results.searches_performed)
                                - FailuresSeen(web_responses)) :
          /\ search_results' =
                SearchQuery(search_results, Queries(searcher)[query_no + 1],
                            response, searcher)
          /\ web_responses' = Append(web_responses, response)
    /\ query_no' = query_no + 1
    /\ UNCHANGED <<float_sum, utilVars, searcher, scoreVars, analysisVars, poolVars, extractVars>>

NextSearch == RunQuery

SpecSearch == InitSearch /\ [][NextSearch]_vars

\* ------------------------------------------------------------------------
\* Calls of the extractors
\* ------------------------------------------------------------------------
EMaxPages == 2
EMaxTokens == 2

\* what a text handed to extract_data_from_results can hold for an agent
ResultTokens(agent) ==
    CASE agent = "financial_agent" ->
            {Tok("piva", <<"1">>), Tok("piva", <<"2">>), Tok("fatturato", <<"1">>),
             Tok("ricavi", <<"2">>), Tok("dipendenti", <<"1">>),
             Tok("sede", <<" ">>), Tok("sede", <<" ", "1", " ">>)}
      [] agent = "digital_agent" ->
            {Tok("url", <<"1">>), Tok("url", <<"2">>), Tok("traffico", <<"1">>),
             Tok("traffico", <<"2">>)}
      [] agent = "social_agent" ->
            {Tok("instagram", <<>>), Tok("facebook", <<>>), Tok("follower", <<"1">>),
             Tok("follower", <<"2">>), Tok("like", <<"1">>)}
      [] OTHER ->
            {Tok("piva", <<"1">>), Tok("url", <<"1">>)}

\* the lists of at most p pages that hold at most b tokens together
RECURSIVE PageLists(_, _, _)
PageLists(tokens, p, b) ==
    IF p = 0 THEN {<<>>}
    ELSE {<<>>} \cup
         UNION {{<<Page("https://x.it", snippet)>> \o rest :
                    rest \in PageLists(tokens, p - 1, b - Len(snippet))} :
                snippet \in SeqsUpTo(tokens, b)}

MarketTokens ==
    {Tok("quota_mercato", <<"1">>), Tok("quota_mercato", <<" ">>),
     Tok("market_share", <<" ", "2">>), Tok("percento_mercato", <<"3">>),
     Tok("altro", <<>>)}

\* what a text handed to extract_registry_data can hold
RegistryTokens ==
    ResultTokens("financial_agent") \cup {Tok("forma_giuridica", <<"SRL">>)}

CompanyTokens ==
    {Tok(field, <<"1">>) : field \in CompanyFields}
        \cup {Tok("piva", <<"2">>), Tok("comune", <<" ", "1">>), Tok("altro", <<>>)}

\* the characters a captured group is made of
NumberChars == {"1", "0", ".", ",", "-", " ", "k"}
NMaxChars == 3

\* the texts handed to extract_number_from_text: the pattern matches and
\* captures some characters, or matches nowhere, or the text is None
NumberTexts ==
    {Str(<<Tok("traffico", capture)>>) : capture \in SeqsUpTo(NumberChars, NMaxChars)}
        \cup {Str(<<>>), Str(<<Tok("altro", <<>>)>>), NotADict}

NumberDefaults == {0, 15000}

\* the list with x put after its first k elements
InsertAt(list, k, x) == SubSeq(list, 1, k) \o <<x>> \o SubSeq(list, k + 1, Len(list))

InitExtract ==
    /\ float_sum = "sequential"
    /\ ScoreIdle
    /\ AnalysisIdle
    /\ PoolIdle
    /\ SearchIdle
    /\ UtilIdle
    /\ \/ \E agent \in Agents :
            \E results \in PageLists(ResultTokens(agent), EMaxPages, EMaxTokens) :
                call = [fn |-> "extract_data_from_results", results |-> results,
                        agent_name |-> agent]
       \/ \E text \in SeqsUpTo(MarketTokens, EMaxTokens) :
            call = [fn |-> "extract_market_share", text |-> text]
       \/ \E ai_content \in SeqsUpTo(CompanyTokens, EMaxTokens) :
            call = [fn |-> "extract_company_data_from_ai", ai_content |-> ai_content,
                    company_name |-> "company"]
       \/ \E results \in PageLists(RegistryTokens, EMaxPages, EMaxTokens) :
            call = [fn |-> "extract_registry_data", results |-> results]
       \/ \E agent \in Agents :
            \E results \in PageLists(ResultTokens(agent), EMaxPages - 1, EMaxTokens) :
              \E k \in 0..Len(results) :
                call = [fn |-> "extract_data_from_results",
                        results |-> InsertAt(results, k, NotADict),
                        agent_name |-> agent]
       \/ \E text \in NumberTexts, default \in NumberDefaults :
            call = [fn |-> "extract_number_from_text", text |-> text,
                    pattern |-> "traffico", default |-> default]
    /\ returned = NotCalled
    /\ returned_again = NotCalled

RaisedValue == [called |-> TRUE, raised |-> TRUE, value |-> EmptyDict]

Return(value) ==
    /\ returned = NotCalled
    /\ returned' = [called |-> TRUE, value |-> value]
    /\ UNCHANGED <<float_sum, utilVars, call, returned_again, scoreVars, analysisVars,
                   poolVars, searchVars>>

\* the call ends in an exception
Raise ==
    /\ returned = NotCalled
    /\ returned' = RaisedValue
    /\ UNCHANGED <<float_sum, utilVars, call, returned_again, scoreVars, analysisVars,
                   poolVars, searchVars>>

CallExtractData ==
    /\ call # EmptyDict
    /\ call.fn = "extract_data_from_results"
    /\ IF ExtractDataRaises(call.results) THEN Raise
       ELSE Return(ExtractDataFromResults(call.results, call.agent_name))

CallExtractMarketShare ==
    /\ call # EmptyDict
    /\ call.fn = "extract_market_share"
    /\ Return(ExtractMarketShare(call.text))

CallExtractCompanyData ==
    /\ call # EmptyDict
    /\ call.fn = "extract_company_data_from_ai"
    /\ \E fake_piva \in FakeNumbers, fake_cf \in FakeNumbers, fake_rea \in FakeReas :
          Return(ExtractCompanyDataFromAi(call.ai_content, call.company_name,
                                          fake_piva, fake_cf, fake_rea))

CallExtractRegistry ==
    /\ call # EmptyDict
    /\ call.fn = "extract_registry_data"
    /\ Return(ExtractRegistryData(call.results))

CallExtractNumber ==
    /\ call # EmptyDict
    /\ call.fn = "extract_number_from_text"
    /\ Return(ExtractNumberFromText(call.text, call.pattern, call.default))

\* everything a call of the extractor can return on this input
ExtractorResults(c) ==
    CASE c.fn = "extract_data_from_results" /\ ExtractDataRaises(c.results) -> {}
      [] c.fn = "extract_data_from_results" /\ ~ExtractDataRaises(c.results) ->
            {ExtractDataFromResults(c.results, c.agent_name)}
      [] c.fn = "extract_market_share" -> {ExtractMarketShare(c.text)}
      [] c.fn = "extract_registry_data" -> {ExtractRegistryData(c.results)}
      [] c.fn = "extract_number_from_text" ->
            {ExtractNumberFromText(c.text, c.pattern, c.default)}
      [] c.fn = "extract_company_data_from_ai" ->
            {ExtractCompanyDataFromAi(c.ai_content, c.company_name, fake_piva,
                                      fake_cf, fake_rea) :
                fake_piva \in FakeNumbers, fake_cf \in FakeNumbers,
                fake_rea \in FakeReas}

\* the same extractor is called a second time on the same input
CallAgain ==
    /\ returned.called
    /\ returned_again = NotCalled
    /\ \/ \E value \in ExtractorResults(call) :
             returned_again' = [called |-> TRUE, value |-> value]
       \/ /\ ExtractorResults(call) = {}
          /\ returned_again' = RaisedValue
    /\ UNCHANGED <<float_sum, utilVars, call, returned, scoreVars, analysisVars, poolVars,
                   searchVars>>

NextExtract ==
    \/ CallExtractData
    \/ CallExtractMarketShare
    \/ CallExtractCompanyData
    \/ CallExtractRegistry
    \/ CallExtractNumber
    \/ CallAgain

SpecExtract == InitExtract /\ [][NextExtract]_vars

\* ------------------------------------------------------------------------
\* orchestrate_full_analysis: the pool, the collecting loop, the aggregation
\* ------------------------------------------------------------------------
\* ThreadPoolExecutor(max_workers=3)
MaxWorkers == 3

\* how many of the five futures may raise instead of returning
MaxRaised == 1

NoOutcome == [kind |-> "none"]
ReturnedBy(result) == [kind |-> "returned", result |-> result]
RaisedOutcome == [kind |-> "raised"]

\* the web an agent task meets: its first query finds one page that shows
\* every field the agent can extract
OrchWeb(agent) == CountedWeb(agent, Len(FieldTexts(agent)), 1)

\* what execute_agent_research returns to each agent on that web
TaskResults ==
    [a \in Agents |->
        [openai_raises \in BOOLEAN |->
            ExecuteAgentResearch(a, OrchWeb(a), openai_raises)]]

InitOrch ==
    /\ float_sum \in FloatSums
    /\ ScoreIdle
    /\ SearchIdle
    /\ ExtractIdle
    /\ UtilIdle
    /\ analysis_results = NewAnalysis(<<>>)
    /\ pc = "submit"
    /\ task = [a \in Agents |-> "new"]
    /\ future = [a \in Agents |-> NoOutcome]
    /\ yielded = {}

Submitted == {a \in Agents : task[a] # "new"}

\* executor.submit(...) for the next agent of agents_to_run
Submit ==
    /\ pc = "submit"
    /\ LET a == AgentsToRun[Cardinality(Submitted) + 1]
       IN task' = [task EXCEPT ![a] = "queued"]
    /\ pc' = IF Cardinality(Submitted) + 1 = Len(AgentsToRun) THEN "collect" ELSE pc
    /\ UNCHANGED <<float_sum, utilVars, analysis_results, future, yielded, scoreVars,
                   searchVars, extractVars>>

Position(a) == CHOOSE i \in 1..Len(AgentsToRun) : AgentsToRun[i] = a

\* a is at the head of the queue and a worker is free
CanStart(a) ==
    /\ task[a] = "queued"
    /\ \A b \in Agents : task[b] = "queued" => Position(a) <= Position(b)
    /\ Cardinality({b \in Agents : task[b] = "running"}) < MaxWorkers

\* a free worker takes the task at the head of the queue
Start(a) ==
    /\ CanStart(a)
    /\ task' = [task EXCEPT ![a] = "running"]
    /\ UNCHANGED <<float_sum, utilVars, analysisVars, future, yielded, scoreVars,
                   searchVars, extractVars>>

Running(a) == task[a] = "running"

\* execute_agent_research runs to its end: it returns the structured response
\* or the error marker, or the call itself raises
Finish(a) ==
    /\ Running(a)
    /\ \/ \E openai_raises \in BOOLEAN :
             future' = [future EXCEPT
                          ![a] = ReturnedBy(TaskResults[a][openai_raises])]
       \/ /\ Cardinality({b \in Agents : future[b] = RaisedOutcome}) < MaxRaised
          /\ future' = [future EXCEPT ![a] = RaisedOutcome]
    /\ task' = [task EXCEPT ![a] = "finished"]
    /\ UNCHANGED <<float_sum, utilVars, analysisVars, yielded, scoreVars, searchVars,
                   extractVars>>

\* a variant that also hands out a future whose task is still running
CompletedOrRunning(a) == task[a] \in {"running", "finished"}

\* as_completed hands out the futures that are done
Completed(a) == task[a] = "finished"

\* a variant whose except branch records an empty result, not the marker
RecordedUnmarked(outcome) ==
    IF outcome.kind = "returned" THEN outcome.result ELSE EmptyDict

\* try: result = future.result() ... except Exception: {"error": str(e)}
Recorded(outcome) ==
    IF outcome.kind = "returned" THEN outcome.result ELSE ErrorMarker

\* agents_results[agent_name] = result
SetItem(items, agent, result) ==
    IF \E i \in 1..Len(items) : items[i].agent = agent
    THEN [i \in 1..Len(items) |->
            IF items[i].agent = agent THEN [agent |-> agent, result |-> result]
            ELSE items[i]]
    ELSE Append(items, [agent |-> agent, result |-> result])

CanCollect(a) == a \notin yielded /\ Completed(a)

\* one round of "for future in as_completed(future_to_agent)"
Collect(a) ==
    /\ pc = "collect"
    /\ CanCollect(a)
    /\ yielded' = yielded \cup {a}
    /\ analysis_results' =
          [analysis_results EXCEPT
             !.agents_results = SetItem(@, a, Recorded(future[a]))]
    /\ UNCHANGED <<float_sum, utilVars, pc, task, future, scoreVars, searchVars, extractVars>>

AllCollected == yielded = Agents /\ \A a \in Agents : task[a] = "finished"

\* as_completed is exhausted and the with-block shuts the pool down
LeavePool ==
    /\ pc = "collect"
    /\ AllCollected
    /\ pc' = "consolidate"
    /\ UNCHANGED <<float_sum, utilVars, analysis_results, poolVars, scoreVars, searchVars,
                   extractVars>>

\* a step of the pool or of the collecting loop
PoolStep ==
    \/ Submit
    \/ \E a \in Agents : Start(a) \/ Finish(a) \/ Collect(a)
    \/ LeavePool

NextOrch ==
    \/ PoolStep
    \/ Consolidate
    \/ QualityMetrics

SpecOrch == InitOrch /\ [][NextOrch]_vars

\* ------------------------------------------------------------------------
\* Entry points and the OpenAI key
\* ------------------------------------------------------------------------
\* os.getenv('OPENAI_API_KEY') is None while the variable is unset; a text
\* input left empty and a variable set to nothing are ""
KeyUnset == "None"
ConfiguredKey == "sk-key"
KeyValues == {KeyUnset, "", ConfiguredKey}

\* not key
KeyMissing(key) == key = KeyUnset \/ key = ""

EntryReturned(value) == [called |-> TRUE, how |-> "returned", value |-> value]
EntryRaised(exception) == [called |-> TRUE, how |-> "raised", value |-> exception]
EntryStopped == [called |-> TRUE, how |-> "stopped", value |-> EmptyDict]

\* random.choice(streets), random.randint(1, 200), random.choice(cities)
FakeAddresses == {<<"Via Roma 1, Milano">>, <<"Via Nazionale 200, Firenze">>}

SearchCompanyBasic(company_name, fake_piva, fake_cf, fake_address) ==
    [company_name |-> company_name,
     search_performed |-> TRUE,
     results_found |-> 1,
     companies |-> <<[name |-> company_name,
                      piva |-> fake_piva,
                      codice_fiscale |-> fake_cf,
                      sede_legale |-> fake_address,
                      comune |-> "Milano",
                      provincia |-> "MI",
                      cap |-> "20121",
                      settore |-> "Servizi",
                      forma_giuridica |-> "SRL",
                      capitale_sociale |-> "€100.000",
                      stato |-> "Attiva"]>>]

\* the record search_company_advanced builds from the model's reply
AiEnhanced(company_name, ai_content, fake_piva, fake_cf, fake_rea) ==
    [company_name |-> company_name,
     search_performed |-> TRUE,
     data_source |-> "AI_Enhanced",
     extracted_data |-> ExtractCompanyDataFromAi(ai_content, company_name,
                                                 fake_piva, fake_cf, fake_rea),
     raw_ai_response |-> ai_content]

InitEntry ==
    /\ float_sum = "sequential"
    /\ ScoreIdle
    /\ AnalysisIdle
    /\ PoolIdle
    /\ SearchIdle
    /\ ExtractIdle
    /\ LaterIdle
    /\ CacheIdle
    /\ RetryIdle
    /\ \/ /\ api_key \in KeyValues
          /\ entry = [point |-> "validate_config"]
       \/ /\ api_key \in {"", ConfiguredKey}
          /\ \E company_name \in {"", "company"}, clicked \in BOOLEAN :
                entry = [point |-> "main", company_name |-> company_name,
                         clicked |-> clicked]
       \/ /\ api_key \in KeyValues
          /\ \E use_ai \in BOOLEAN :
                entry = [point |-> "search_company_advanced",
                         company_name |-> "company", use_ai |-> use_ai]
    /\ company_ops = <<>>
    /\ entry_out = NotCalled

EntryEnds(ops, out) ==
    /\ entry_out = NotCalled
    /\ company_ops' = company_ops \o ops
    /\ entry_out' = out
    /\ UNCHANGED <<float_sum, api_key, entry, scoreVars, analysisVars, poolVars,
                   searchVars, extractVars, laterVars, cacheVars, retryVars>>

\* Config.validate_config
ValidateConfig ==
    /\ entry # EmptyDict
    /\ entry.point = "validate_config"
    /\ IF KeyMissing(api_key)
       THEN EntryEnds(<<>>, EntryRaised("ValueError"))
       ELSE EntryEnds(<<>>, EntryReturned([valid |-> TRUE]))

\* one run of the page script: the key, the form, the button
Main ==
    /\ entry # EmptyDict
    /\ entry.point = "main"
    /\ IF KeyMissing(api_key) THEN EntryEnds(<<>>, EntryStopped)
       ELSE IF ~entry.clicked THEN EntryEnds(<<>>, EntryReturned(EmptyDict))
       ELSE IF entry.company_name = ""
            THEN EntryEnds(<<>>, EntryReturned([shown |-> "st.error"]))
       ELSE \E shown \in {"results", "st.exception"} :
                EntryEnds(<<"comprehensive_analysis">>,
                          EntryReturned([shown |-> shown]))

\* the except branch and the use_ai = False branch
FallBackToBasic(ops) ==
    \E fake_piva \in FakeNumbers, fake_cf \in FakeNumbers,
       fake_address \in FakeAddresses :
        EntryEnds(ops \o <<"company_record">>,
                  EntryReturned(SearchCompanyBasic(entry.company_name, fake_piva,
                                                   fake_cf, fake_address)))

\* CameraCommercioScraper.search_company_advanced: OpenAI(api_key=None) with
\* the variable unset raises in the constructor; with any other key the
\* request is sent, and it is rejected unless the key is valid
SearchCompanyAdvanced ==
    /\ entry # EmptyDict
    /\ entry.point = "search_company_advanced"
    /\ IF ~entry.use_ai THEN FallBackToBasic(<<>>)
       ELSE IF api_key = KeyUnset THEN FallBackToBasic(<<>>)
       ELSE IF api_key = "" THEN FallBackToBasic(<<"chat_completion">>)
       ELSE \/ FallBackToBasic(<<"chat_completion">>)
            \/ \E ai_content \in SeqsUpTo(CompanyTokens, EMaxTokens),
                  fake_piva \in FakeNumbers, fake_cf \in FakeNumbers,
                  fake_rea \in FakeReas :
                 EntryEnds(<<"chat_completion", "company_record">>,
                           EntryReturned(AiEnhanced(entry.company_name,
                                                    ai_content, fake_piva,
                                                    fake_cf, fake_rea)))

NextEntry ==
    \/ ValidateConfig
    \/ Main
    \/ SearchCompanyAdvanced

SpecEntry == InitEntry /\ [][NextEntry]_vars

\* ------------------------------------------------------------------------
\* utils.CacheManager
\* ------------------------------------------------------------------------
MaxTtl == 2
MaxClock == 3
CacheKeys == {"k1", "k2"}
CacheValues == {"a", "b"}
PyNone == "None"

\* a variant that still serves an entry exactly ttl seconds old
FreshAtTtl(now, timestamp, ttl_seconds) == now - timestamp <= ttl_seconds

\* time.time() - timestamp < self.ttl
Fresh(now, timestamp, ttl_seconds) == now - timestamp < ttl_seconds

InitCache ==
    /\ float_sum = "sequential"
    /\ ScoreIdle
    /\ AnalysisIdle
    /\ PoolIdle
    /\ SearchIdle
    /\ ExtractIdle
    /\ LaterIdle
    /\ EntryIdle
    /\ RetryIdle
    /\ cache = EmptyDict
    /\ ttl \in 0..MaxTtl
    /\ clock = 0
    /\ last_set = EmptyDict
    /\ cache_op = NoCacheOp

\* time passes between two calls
Tick ==
    /\ clock < MaxClock
    /\ clock' = clock + 1
    /\ UNCHANGED <<float_sum, cache, ttl, last_set, cache_op, scoreVars,
                   analysisVars, poolVars, searchVars, extractVars, laterVars, entryVars,
                   retryVars>>

CacheSet ==
    \E key \in CacheKeys, value \in CacheValues :
        /\ cache' = Put(cache, key, [value |-> value, timestamp |-> clock])
        /\ last_set' = Put(last_set, key, [value |-> value, at |-> clock])
        /\ cache_op' = [op |-> "set", key |-> key, at |-> clock,
                        value |-> PyNone]
        /\ UNCHANGED <<float_sum, ttl, clock, scoreVars, analysisVars, poolVars,
                       searchVars, extractVars, laterVars, entryVars, retryVars>>

CacheGet ==
    \E key \in CacheKeys :
        /\ IF key \in DOMAIN cache
           THEN IF Fresh(clock, cache[key].timestamp, ttl)
                THEN /\ cache' = cache
                     /\ cache_op' = [op |-> "get", key |-> key, at |-> clock,
                                     value |-> cache[key].value]
                ELSE /\ cache' = [k \in DOMAIN cache \ {key} |-> cache[k]]
                     /\ cache_op' = [op |-> "get", key |-> key, at |-> clock,
                                     value |-> PyNone]
           ELSE /\ cache' = cache
                /\ cache_op' = [op |-> "get", key |-> key, at |-> clock,
                                value |-> PyNone]
        /\ UNCHANGED <<float_sum, ttl, clock, last_set, scoreVars, analysisVars,
                       poolVars, searchVars, extractVars, laterVars, entryVars, retryVars>>

CacheClear ==
    /\ cache' = EmptyDict
    /\ cache_op' = [op |-> "clear", key |-> "", at |-> clock, value |-> PyNone]
    /\ UNCHANGED <<float_sum, ttl, clock, last_set, scoreVars, analysisVars,
                   poolVars, searchVars, extractVars, laterVars, entryVars, retryVars>>

NextCache ==
    \/ Tick
    \/ CacheSet
    \/ CacheGet
    \/ CacheClear

SpecCache == InitCache /\ [][NextCache]_vars

\* ------------------------------------------------------------------------
\* utils.retry_on_failure
\* ------------------------------------------------------------------------
MaxRetries == 3
MaxDelay == 3
ExceptionKinds == {"ConnectionError", "ValueError"}

\* what one invocation of the wrapped function did; the number tells the
\* invocations apart
InvocationOk(number) == [ok |-> TRUE, value |-> number]
InvocationFailed(number, kind) == [ok |-> FALSE, value |-> number, exception |-> kind]

\* the wrapper returns what an invocation returned, or None, which no
\* invocation produced
ReturnedNone == [ok |-> TRUE, value |-> 0]
WrapperReturned(success) == [called |-> TRUE, how |-> "returned", value |-> success]
WrapperRaised(failure) == [called |-> TRUE, how |-> "raised", value |-> failure]

\* WebScraper.get_page is wrapped with max_retries=3 and the default delay
GetPageRetries == 3
GetPageDelay == 1

\* what the HTTP request of one get_page invocation does: a response, an
\* exception of session.get, an error status that raise_for_status raises
HttpOutcomes == {"ok", "raised", "error_status"}

\* the body of get_page: its own except clause turns every failure of the
\* request into a returned None
GetPage(request, number) ==
    [ok |-> TRUE, value |-> number, request |-> request,
     response |-> IF request = "ok" THEN "response" ELSE PyNone]

\* everything one invocation of the wrapped function can do
InvocationOutcomes(func, number) ==
    IF func = "get_page" THEN {GetPage(request, number) : request \in HttpOutcomes}
    ELSE {InvocationOk(number)}
            \cup {InvocationFailed(number, kind) : kind \in ExceptionKinds}

\* a variant whose test for the last attempt is off by one
LastAttemptOffByOne(attempt, max_retries) == attempt = max_retries

\* if attempt == max_retries - 1
LastAttempt(attempt, max_retries) == attempt = max_retries - 1

InitRetry ==
    /\ float_sum = "sequential"
    /\ ScoreIdle
    /\ AnalysisIdle
    /\ PoolIdle
    /\ SearchIdle
    /\ ExtractIdle
    /\ LaterIdle
    /\ EntryIdle
    /\ CacheIdle
    /\ \/ \E max_retries \in 0..MaxRetries, delay \in 0..MaxDelay :
            retry = [func |-> "func", max_retries |-> max_retries,
                     delay |-> delay]
       \/ retry = [func |-> "get_page", max_retries |-> GetPageRetries,
                   delay |-> GetPageDelay]
    /\ invocations = <<>>
    /\ sleeps = <<>>
    /\ retry_out = NotCalled

\* one pass of the for loop: attempt = the number of invocations made so far
Attempt ==
    /\ retry # EmptyDict
    /\ retry_out = NotCalled
    /\ Len(invocations) < retry.max_retries
    /\ LET attempt == Len(invocations)
       IN \E outcome \in InvocationOutcomes(retry.func, attempt + 1) :
            /\ invocations' = Append(invocations, outcome)
            /\ IF outcome.ok
               THEN /\ retry_out' = WrapperReturned(outcome)
                    /\ sleeps' = sleeps
               ELSE IF LastAttempt(attempt, retry.max_retries)
               THEN /\ retry_out' = WrapperRaised(outcome)
                    /\ sleeps' = sleeps
               ELSE /\ retry_out' = retry_out
                    /\ sleeps' = Append(sleeps, retry.delay * 2 ^ attempt)
    /\ UNCHANGED <<float_sum, retry, scoreVars, analysisVars, poolVars,
                   searchVars, extractVars, laterVars, entryVars, cacheVars>>

\* the loop is over without a return or a raise: return None
LoopEnds ==
    /\ retry # EmptyDict
    /\ retry_out = NotCalled
    /\ Len(invocations) >= retry.max_retries
    /\ retry_out' = WrapperReturned(ReturnedNone)
    /\ UNCHANGED <<float_sum, retry, invocations, sleeps, scoreVars,
                   analysisVars, poolVars, searchVars, extractVars, laterVars, entryVars,
                   cacheVars>>

NextRetry ==
    \/ Attempt
    \/ LoopEnds

SpecRetry == InitRetry /\ [][NextRetry]_vars

\* ------------------------------------------------------------------------
\* utils.RateLimiter
\* ------------------------------------------------------------------------
MaxLimit == 2
MaxWindow == 2
MaxAccepted == 4

\* [req_time for req_time in self.requests if now - req_time < self.time_window]
Recent(reqs, now, time_window) ==
    LET InWindow(req_time) == now - req_time < time_window
    IN SelectSeq(reqs, InWindow)

\* a variant that lets one request too many through
UnderLimitOffByOne(count, max_requests) == count <= max_requests

\* len(self.requests) < self.max_requests
UnderLimit(count, max_requests) == count < max_requests

\* min(self.requests)
Oldest(reqs) == Min({reqs[i] : i \in 1..Len(reqs)})

\* max(0, a)
AtLeastZero(a) == IF a > 0 THEN a ELSE 0

\* wait_time at the time now: the list is read as it is, nothing is removed
WaitTime(reqs, now, time_window) ==
    IF reqs = <<>> THEN 0
    ELSE AtLeastZero(time_window - (now - Oldest(reqs)))

InitLimiter ==
    /\ float_sum = "sequential"
    /\ ScoreIdle
    /\ AnalysisIdle
    /\ PoolIdle
    /\ SearchIdle
    /\ ExtractIdle
    /\ EntryIdle
    /\ CacheIdle
    /\ RetryIdle
    /\ AssistantIdle
    /\ \E max_requests \in 0..MaxLimit, time_window \in 0..MaxWindow :
          limiter = [max_requests |-> max_requests, time_window |-> time_window]
    /\ requests = <<>>
    /\ accepted = <<>>
    /\ limiter_op = NoLimiterOp

CanMakeRequest ==
    /\ limiter # EmptyDict
    /\ requests' = Recent(requests, clock, limiter.time_window)
    /\ limiter_op' = [op |-> "can_make_request", at |-> clock,
                      value |-> UnderLimit(Len(requests'), limiter.max_requests),
                      accepted_before |-> Len(accepted)]
    /\ UNCHANGED <<float_sum, limiter, accepted, scoreVars, analysisVars,
                   poolVars, searchVars, extractVars, entryVars, cacheVars,
                   retryVars, assistantVars>>

\* make_request reads the clock twice: in can_make_request and for the
\* timestamp it appends; time may pass between the two
MakeRequest ==
    /\ limiter # EmptyDict
    /\ Len(accepted) < MaxAccepted
    /\ LET kept == Recent(requests, clock, limiter.time_window)
       IN IF UnderLimit(Len(kept), limiter.max_requests)
          THEN \E later \in {t \in clock..(clock + 1) : t <= MaxClock} :
                  /\ requests' = Append(kept, later)
                  /\ accepted' = Append(accepted, later)
                  /\ clock' = later
                  /\ limiter_op' = [op |-> "make_request", at |-> later,
                                    value |-> TRUE,
                                    accepted_before |-> Len(accepted)]
          ELSE /\ requests' = kept
               /\ accepted' = accepted
               /\ clock' = clock
               /\ limiter_op' = [op |-> "make_request", at |-> clock,
                                 value |-> FALSE,
                                 accepted_before |-> Len(accepted)]
    /\ UNCHANGED <<float_sum, limiter, cache, ttl, last_set, cache_op,
                   scoreVars, analysisVars, poolVars, searchVars, extractVars,
                   entryVars, retryVars, assistantVars>>

CallWaitTime ==
    /\ limiter # EmptyDict
    /\ limiter_op' = [op |-> "wait_time", at |-> clock,
                      value |-> WaitTime(requests, clock, limiter.time_window),
                      accepted_before |-> Len(accepted)]
    /\ UNCHANGED <<float_sum, limiter, requests, accepted, scoreVars,
                   analysisVars, poolVars, searchVars, extractVars, entryVars,
                   cacheVars, retryVars, assistantVars>>

NextLimiter ==
    \/ Tick
    \/ CanMakeRequest
    \/ MakeRequest
    \/ CallWaitTime

SpecLimiter == InitLimiter /\ [][NextLimiter]_vars

\* ------------------------------------------------------------------------
\* OpenAIAssistantsResearch.run_assistant_analysis
\* ------------------------------------------------------------------------
MaxRounds == 2
MaxPolls == 3

AssistantKinds == {"financial", "digital", "competitor"}

\* the function tools create_specialized_assistants declares to each assistant
DeclaredTools(kind) ==
    CASE kind = "financial" -> {"search_registry", "web_search"}
      [] kind = "digital" -> {"analyze_website", "competitor_seo_analysis"}
      [] kind = "competitor" -> {"find_competitors", "analyze_market_position"}

\* the names the if/elif chain of the loop dispatches on
HandledFunctions ==
    {"search_registry", "web_search", "analyze_website", "find_competitors",
     "analyze_market_position"}

\* the arguments string of a tool call is written by the model: JSON with the
\* parameters, JSON without one of them, or no JSON at all
ArgumentKinds == {"ok", "missing_key", "invalid_json"}

ToolCall(id, name, arguments) == [id |-> id, name |-> name, arguments |-> arguments]

\* the lists of one or two tool calls the assistant can request in a round
ToolCallLists(kind, round) ==
    LET calls(position) ==
            {ToolCall(10 * round + position, name, arguments) :
                name \in DeclaredTools(kind), arguments \in ArgumentKinds}
    IN {<<c>> : c \in calls(1)} \cup {<<c, d>> : c \in calls(1), d \in calls(2)}

\* a variant of the loop condition that forgets requires_action
LoopStatusesWithoutAction == {"queued", "in_progress"}

\* while run.status in ['queued', 'in_progress', 'requires_action']
LoopStatuses == {"queued", "in_progress", "requires_action"}

EndStatuses == {"completed", "failed", "cancelled", "expired"}

\* json.loads(tool_call.function.arguments) and, in a handled branch, the
\* function_args[...] lookups: does the pass over this call raise
CallRaises(tool_call) ==
    \/ tool_call.arguments = "invalid_json"
    \/ tool_call.arguments = "missing_key" /\ tool_call.name \in HandledFunctions

\* the entry appended to tool_outputs for one call; every handler catches its
\* own exceptions and returns a dict
ToolOutput(tool_call) ==
    [tool_call_id |-> tool_call.id,
     output |-> IF tool_call.name \in HandledFunctions THEN "result"
                ELSE "not implemented"]

ToolOutputs(tool_calls) == [i \in 1..Len(tool_calls) |-> ToolOutput(tool_calls[i])]

AnalysisSuccess == [called |-> TRUE, success |-> TRUE, detail |-> "response"]
AnalysisFailure(detail) == [called |-> TRUE, success |-> FALSE, detail |-> detail]

\* the thread, the message and the run have been created; the run is queued
InitAssistant ==
    /\ float_sum = "sequential"
    /\ ScoreIdle
    /\ AnalysisIdle
    /\ PoolIdle
    /\ SearchIdle
    /\ ExtractIdle
    /\ EntryIdle
    /\ CacheIdle
    /\ RetryIdle
    /\ LimiterIdle
    /\ \E kind \in AssistantKinds : assistant = [kind |-> kind]
    /\ vendor_run = [status |-> "queued", tool_calls |-> <<>>, replied |-> FALSE]
    /\ seen = "queued"
    /\ observed = NoToolCalls
    /\ submitted = NoToolOutputs
    /\ polls = 0
    /\ analysis_out = NotCalled

AssistantUnchanged ==
    UNCHANGED <<float_sum, scoreVars, analysisVars, poolVars, searchVars,
                extractVars, entryVars, cacheVars, retryVars, limiterVars>>

\* the vendor's side of the run, followed until the function returns: the run
\* starts, the assistant posts a message, asks for tool calls, completes with
\* its answer, or the run ends otherwise
VendorStep ==
    /\ assistant # EmptyDict
    /\ analysis_out = NotCalled
    /\ vendor_run.status \in LoopStatuses
    /\ \/ /\ vendor_run.status = "queued"
          /\ vendor_run' = [vendor_run EXCEPT !.status = "in_progress"]
       \/ /\ vendor_run.status = "in_progress"
          /\ ~vendor_run.replied
          /\ vendor_run' = [vendor_run EXCEPT !.replied = TRUE]
       \/ /\ vendor_run.status = "in_progress"
          /\ observed.round < MaxRounds
          /\ \E tool_calls \in ToolCallLists(assistant.kind, observed.round + 1) :
                vendor_run' = [vendor_run EXCEPT !.status = "requires_action",
                                                 !.tool_calls = tool_calls]
       \/ /\ vendor_run.status = "in_progress"
          /\ vendor_run' = [vendor_run EXCEPT !.status = "completed",
                                              !.replied = TRUE]
       \/ \E status \in {"failed", "cancelled", "expired"} :
             vendor_run' = [vendor_run EXCEPT !.status = status]
    /\ UNCHANGED <<assistant, seen, observed, submitted, polls, analysis_out>>
    /\ AssistantUnchanged

\* one pass of the while loop: sleep, retrieve, and on requires_action run
\* the tool calls and submit their outputs
Poll ==
    /\ assistant # EmptyDict
    /\ analysis_out = NotCalled
    /\ seen \in LoopStatuses
    /\ seen' = vendor_run.status
    /\ polls' = IF polls < MaxPolls THEN polls + 1 ELSE polls
    /\ IF vendor_run.status # "requires_action"
       THEN UNCHANGED <<vendor_run, observed, submitted, analysis_out>>
       ELSE /\ observed' = [round |-> observed.round + 1,
                            tool_calls |-> vendor_run.tool_calls]
            /\ IF \E i \in 1..Len(vendor_run.tool_calls) :
                     CallRaises(vendor_run.tool_calls[i])
               THEN /\ analysis_out' = AnalysisFailure("exception")
                    /\ UNCHANGED <<vendor_run, submitted>>
               ELSE /\ submitted' =
                          [round |-> observed.round + 1,
                           tool_outputs |-> ToolOutputs(vendor_run.tool_calls)]
                    /\ vendor_run' = [vendor_run EXCEPT !.status = "queued",
                                                        !.tool_calls = <<>>]
                    /\ UNCHANGED analysis_out
    /\ UNCHANGED assistant
    /\ AssistantUnchanged

\* after the loop: the thread's messages decide the result
CollectResponse ==
    /\ assistant # EmptyDict
    /\ analysis_out = NotCalled
    /\ seen \notin LoopStatuses
    /\ analysis_out' = IF vendor_run.replied THEN AnalysisSuccess
                       ELSE AnalysisFailure("No assistant response received")
    /\ UNCHANGED <<assistant, vendor_run, seen, observed, submitted, polls>>
    /\ AssistantUnchanged

\* a call to the vendor (retrieve, list) raises: the except clause answers
VendorCallRaises ==
    /\ assistant # EmptyDict
    /\ analysis_out = NotCalled
    /\ analysis_out' = AnalysisFailure("vendor error")
    /\ UNCHANGED <<assistant, vendor_run, seen, observed, submitted, polls>>
    /\ AssistantUnchanged

NextAssistant ==
    \/ VendorStep
    \/ Poll
    \/ CollectResponse
    \/ VendorCallRaises

SpecAssistant == InitAssistant /\ [][NextAssistant]_vars

\* the loop and the code after it run whenever they can; the vendor and its
\* failures are under no obligation
SpecAssistantFair ==
    SpecAssistant /\ WF_vars(Poll) /\ WF_vars(CollectResponse)

\* ------------------------------------------------------------------------
\* Properties of the confidence score
\* ------------------------------------------------------------------------
Least(a, b) == IF a <= b THEN a ELSE b

FieldsFound == Cardinality(DOMAIN Get(search_data, "data_found", EmptyDict))
ProductiveSearches ==
    SearchesWithResults(Get(search_data, "searches_performed", <<>>))

\* C1: calculate_confidence_score returns round((min(0.2 f, 1.0) +
\* min(0.1 q, 1.0)) / 2, 2) for f fields found and q searches with results;
\* in hundredths that is (min(20 f, 100) + min(10 q, 100)) / 2, exactly, and
\* it lies between 0 and 100.
C1_ConfidenceFormula ==
    confidence # NotComputed =>
        /\ 2 * confidence =
              Least(20 * FieldsFound, 100) + Least(10 * ProductiveSearches, 100)
        /\ confidence >= 0
        /\ confidence <= 100

\* both sub-scores are capped: more than five fields, more than ten searches
C1_Witness ==
    /\ confidence = 100
    /\ FieldsFound > 5
    /\ ProductiveSearches > 10

\* ------------------------------------------------------------------------
\* Properties of the quality metrics
\* ------------------------------------------------------------------------
Items == analysis_results.agents_results
Metrics == analysis_results.quality_metrics
Succeeded(items) == {i \in 1..Len(items) : ~IsError(items[i].result)}

RECURSIVE ScoreSum(_, _)
ScoreSum(items, idx) ==
    IF idx = {} THEN 0
    ELSE LET i == CHOOSE x \in idx : TRUE
         IN items[i].result.confidence_score + ScoreSum(items, idx \ {i})

Abs(x) == IF x < 0 THEN 0 - x ELSE x

\* C2: overall_score is the mean of the confidence scores of exactly the
\* aspects without an error marker (to the two decimals it is reported with:
\* it differs from the exact mean by at most half a hundredth); failed aspects
\* enter neither the sum nor the count, and with no successful aspect it is 0.
C2_OverallIsMeanOfSucceeded ==
    pc = "done" =>
        LET ok == Succeeded(Items)
            n == Cardinality(ok)
        IN /\ DOMAIN Metrics.agent_scores = {Items[i].agent : i \in ok}
           /\ \A i \in ok :
                 Metrics.agent_scores[Items[i].agent] = Items[i].result.confidence_score
           /\ n = 0 => Metrics.overall_score = 0
           /\ n > 0 => 2 * Abs(n * Metrics.overall_score - ScoreSum(Items, ok)) <= n

\* one aspect failed, the others scored: the mean is over the others alone
C2_Witness ==
    /\ pc = "done"
    /\ Cardinality(Succeeded(Items)) = 2
    /\ \A i \in Succeeded(Items) : Items[i].result.confidence_score > 0
    /\ 2 * Metrics.overall_score = ScoreSum(Items, Succeeded(Items))

\* the items with the aspects at the positions of F replaced by failures
FailAt(items, F) ==
    [i \in 1..Len(items) |->
        IF i \in F THEN [agent |-> items[i].agent, result |-> ErrorMarker]
        ELSE items[i]]

\* the overall_score reported for these agents_results
OverallOf(items) == RoundHundredths(OverallScore(AgentScores(items), float_sum))

\* the sets of successful aspects that can fail while another one succeeds
PartialFailures(items) ==
    {F \in SUBSET Succeeded(items) : F # {} /\ F # Succeeded(items)}

\* C7 as stated: replacing some, but not all, successful aspects by failures
\* never gives a higher overall_score.
C7_FailureNeverRaisesScore ==
    pc = "done" =>
        \A F \in PartialFailures(Items) :
            OverallOf(FailAt(Items, F)) <= Metrics.overall_score

\* C7 amended: the failed aspects leave the mean.  overall_score is not higher
\* than before when every failed aspect scored at least the previous mean, and
\* not lower than before when every failed aspect scored at most that mean.
C7_FailureMovesMeanAway ==
    pc = "done" =>
        LET ok == Succeeded(Items)
            n == Cardinality(ok)
            total == ScoreSum(Items, ok)
        IN \A F \in PartialFailures(Items) :
              /\ (\A i \in F : n * Items[i].result.confidence_score >= total)
                    => OverallOf(FailAt(Items, F)) <= Metrics.overall_score
              /\ (\A i \in F : n * Items[i].result.confidence_score <= total)
                    => OverallOf(FailAt(Items, F)) >= Metrics.overall_score

\* an aspect above the mean fails and the score drops
C7_Witness ==
    /\ pc = "done"
    /\ \E F \in PartialFailures(Items) :
          /\ \A i \in F :
                Cardinality(Succeeded(Items)) * Items[i].result.confidence_score
                    > ScoreSum(Items, Succeeded(Items))
          /\ OverallOf(FailAt(Items, F)) < Metrics.overall_score

LevelOfHundredths(h) ==
    IF h >= 80 THEN "Eccellente"
    ELSE IF h >= 60 THEN "Buona"
    ELSE IF h >= 40 THEN "Sufficiente"
    ELSE "Limitata"

\* C8: the quality label is the bucket of overall_score, each bucket
\* including its lower bound (0.8, 0.6, 0.4), so that the label agrees with
\* the overall_score reported in the same record.
C8_LevelAgreesWithScore ==
    pc = "done" => Metrics.quality_level = LevelOfHundredths(Metrics.overall_score)

\* the result of an agent whose pipeline completed and whose every query
\* returned zero search results
FoundNothing(result) ==
    /\ "error" \notin DOMAIN result
    /\ \A i \in 1..Len(result.search_data.searches_performed) :
          result.search_data.searches_performed[i].results_count = 0

\* C13: an agent all of whose queries return zero search results has an
\* empty extracted-field mapping and confidence score 0.0, and is counted
\* as succeeded, not as failed.
C13_EmptyResultIsNotFailure ==
    pc = "done" =>
        /\ \A i \in 1..Len(Items) :
              FoundNothing(Items[i].result) =>
                  /\ Items[i].result.data_extracted = EmptyDict
                  /\ Items[i].result.confidence_score = 0
                  /\ Items[i].agent \in DOMAIN Metrics.agent_scores
                  /\ Metrics.agent_scores[Items[i].agent] = 0
        /\ Metrics.agents_failed =
              Cardinality({i \in 1..Len(Items) : "error" \in DOMAIN Items[i].result})
        /\ Metrics.agents_succeeded = Len(Items) - Metrics.agents_failed

C13_Witness ==
    /\ pc = "done"
    /\ \A i \in 1..Len(Items) : FoundNothing(Items[i].result)
    /\ Metrics.agents_succeeded = Len(AgentsToRun)
    /\ Metrics.agents_failed = 0
    /\ Metrics.overall_score = 0

\* ------------------------------------------------------------------------
\* Properties of one agent's search
\* ------------------------------------------------------------------------
HasValue(data_found, field) == Truthy(data_found, field)

\* C3: within one agent's research a field is set at most once: a field that
\* has a value in data_found keeps that value through every later query.
C3_FieldSetAtMostOnce ==
    [][\A field \in DOMAIN search_results.data_found :
          HasValue(search_results.data_found, field) =>
              /\ field \in DOMAIN search_results'.data_found
              /\ search_results'.data_found[field] = search_results.data_found[field]]_vars

Searches == search_results.searches_performed

\* C12: a failed web request of one query is recovered locally: the query
\* contributes an entry with zero results, every query run so far has its
\* entry in order, a next query can always be run, and the agent's result
\* carries no error marker.
C12_FetchFailureRecovered ==
    searcher \in Agents =>
        /\ Len(Searches) = query_no
        /\ Len(web_responses) = query_no
        /\ \A i \in 1..query_no :
              /\ Searches[i].query = Queries(searcher)[i]
              /\ web_responses[i].failed =>
                    Searches[i].results_count = 0 /\ Searches[i].results = <<>>
        /\ query_no = NumQueries(searcher) =>
              LET result == StructureAgentResponse(searcher, "report", search_results)
              IN /\ "error" \notin DOMAIN result
                 /\ result = ExecuteAgentResearch(searcher, web_responses, FALSE)

C12_Witness ==
    /\ searcher = "financial_agent"
    /\ query_no = NumQueries(searcher)
    /\ web_responses[1].failed
    /\ Searches[2].results_count > 0
    /\ "piva" \in DOMAIN search_results.data_found

\* ------------------------------------------------------------------------
\* Properties of the extractors
\* ------------------------------------------------------------------------
RECURSIVE AllContent(_)
AllContent(results) ==
    IF results = <<>> THEN <<>>
    ELSE ResultContent(Head(results)) \o AllContent(Tail(results))

\* the patterns whose match an extractor stores under a field
PatternsOf(fn, field) ==
    IF fn \in {"extract_data_from_results", "extract_registry_data"}
    THEN CASE field = "fatturato" -> {"fatturato", "ricavi"}
           [] field = "website" -> {"url"}
           [] field = "traffic" -> {"traffico"}
           [] field = "instagram_followers" -> {"follower"}
           [] field = "facebook_likes" -> {"like"}
           [] OTHER -> {field}
    ELSE {field}

FoundIn(fn, field, text) == \E kind \in PatternsOf(fn, field) : Contains(kind, text)

\* C10: a field whose pattern matches nowhere in the input is absent from the
\* extractor's result; no extractor stores a placeholder, default or
\* generated value for a field that was not found.
C10_NoPlaceholder ==
    returned.called =>
       CASE call.fn = "extract_data_from_results" ->
                \A field \in DOMAIN returned.value :
                    FoundIn(call.fn, field, AllContent(call.results))
         [] call.fn = "extract_market_share" ->
                (\E i \in 1..Len(MarketSharePatterns) :
                    Contains(MarketSharePatterns[i], call.text))
                \/ returned.value = <<>>
         [] call.fn = "extract_company_data_from_ai" ->
                \A field \in DOMAIN returned.value \ {"nome_azienda"} :
                    FoundIn(call.fn, field, call.ai_content)
         [] call.fn = "extract_registry_data" ->
                \A field \in DOMAIN returned.value :
                    FoundIn(call.fn, field, AllContent(call.results))
         [] OTHER -> TRUE

\* the fields whose pattern matches in some well-formed result of the call
MatchingFields(results, agent) ==
    UNION {DOMAIN ExtractDataFromResults(<<results[i]>>, agent) :
              i \in {j \in 1..Len(results) : IsDict(results[j])}}

\* C14: an extraction failure is recovered per field: the call does not end
\* in an exception, and every field that matches in the same pass is in the
\* mapping it returns.
C14_FailureLeavesOtherFields ==
    (returned.called /\ call.fn = "extract_data_from_results") =>
        /\ "raised" \notin DOMAIN returned
        /\ MatchingFields(call.results, call.agent_name) \subseteq DOMAIN returned.value

\* C11: running an extractor twice on identical input yields identical
\* output: the second call returns what the first one returned.
C11_SameInputSameOutput ==
    returned_again.called => returned_again.value = returned.value

\* ------------------------------------------------------------------------
\* Properties of the orchestration
\* ------------------------------------------------------------------------
Aggregating == pc \in {"consolidate", "metrics", "done"}

EntriesOf(items, a) == {i \in 1..Len(items) : items[i].agent = a}

\* the agents whose task failed: its call raised or returned the marker
FailedAgents ==
    {a \in Agents : \/ future[a].kind = "raised"
                    \/ future[a].kind = "returned" /\ IsError(future[a].result)}

\* some step of the pool or of the collecting loop can be taken
PoolCanStep ==
    \/ pc = "submit"
    \/ \E a \in Agents : CanStart(a) \/ Running(a)
    \/ pc = "collect" /\ ((\E a \in Agents : CanCollect(a)) \/ AllCollected)

\* C4: the consolidated list of sources holds at most one entry per URL.
C4_SourcesUniqueByUrl ==
    pc \in {"metrics", "done"} =>
        LET all_sources == analysis_results.consolidated_data.all_sources
        IN \A i, j \in 1..Len(all_sources) :
              all_sources[i].url = all_sources[j].url => i = j

\* the same per-agent results, collected in the order of agents_to_run
InSubmissionOrder(items) ==
    [i \in 1..Len(AgentsToRun) |->
        items[CHOOSE j \in 1..Len(items) : items[j].agent = AgentsToRun[i]]]

\* C5: for every order in which the five tasks complete the aggregation is
\* the same: consolidated_data (all_sources with its order included) and
\* quality_metrics equal those of the results collected in submission order.
C5_AggregationIgnoresOrder ==
    pc = "done" =>
        LET canonical == InSubmissionOrder(Items)
            consolidated == ConsolidateAgentsData(canonical)
        IN /\ analysis_results.consolidated_data = consolidated
           /\ Metrics =
                CalculateQualityMetrics(
                    [analysis_results EXCEPT !.agents_results = canonical,
                                             !.consolidated_data = consolidated],
                    float_sum)

\* C6: whatever subset of the agents fails, the pool and the collecting loop
\* are never stuck before the aggregation, whose two steps are unconditional,
\* and at the end agents_results holds exactly one entry per
\* agent, every failed agent's entry is an error marker, and
\* agents_succeeded + agents_failed = 5 with agents_failed the number of
\* failed agents.
C6_NeverFailsAsAWhole ==
    /\ pc \in {"submit", "collect"} => PoolCanStep
    /\ pc = "done" =>
          /\ Len(Items) = Len(AgentsToRun)
          /\ \A a \in Agents : Cardinality(EntriesOf(Items, a)) = 1
          /\ \A i \in 1..Len(Items) :
                IsError(Items[i].result) <=> Items[i].agent \in FailedAgents
          /\ \A i \in 1..Len(Items) :
                Items[i].agent \in FailedAgents => Items[i].result = ErrorMarker
          /\ Metrics.agents_succeeded + Metrics.agents_failed = Len(AgentsToRun)
          /\ Metrics.agents_failed = Cardinality(FailedAgents)

C6_Witness ==
    /\ pc = "done"
    /\ Cardinality(FailedAgents) = 2
    /\ \E a \in FailedAgents : future[a].kind = "raised"
    /\ \E a \in FailedAgents : future[a].kind = "returned"
    /\ Metrics.agents_succeeded = 3

\* C9: the aggregation starts only after all five tasks have finished, and
\* every entry of agents_results was recorded once, by the collecting loop,
\* for a task that had completed, and holds what that task's future gave.
C9_CollectAfterCompletion ==
    /\ Aggregating =>
          /\ \A a \in Agents : task[a] = "finished"
          /\ yielded = Agents
    /\ Len(Items) = Cardinality(yielded)
    /\ \A a \in Agents :
          Cardinality(EntriesOf(Items, a)) = IF a \in yielded THEN 1 ELSE 0
    /\ \A i \in 1..Len(Items) :
          LET a == Items[i].agent
          IN /\ task[a] = "finished"
             /\ future[a].kind = "returned" => Items[i].result = future[a].result
             /\ future[a].kind = "raised" => Items[i].result = ErrorMarker
             /\ future[a].kind # "none"
    /\ pc = "submit" => Items = <<>>

C9_Witness ==
    /\ pc = "collect"
    /\ Len(Items) = 2
    /\ Items[1].agent = "digital_agent"
    /\ task["financial_agent"] = "running"
    /\ task["company_agent"] = "queued"

\* ------------------------------------------------------------------------
\* Properties of the entry points
\* ------------------------------------------------------------------------
\* C15: while no OpenAI key is configured, no entry point performs a
\* company-specific operation: no prompt is sent to the model and no record
\* about a company is returned.
C15_NoKeyNoCompanyWork ==
    (entry # EmptyDict /\ KeyMissing(api_key)) => company_ops = <<>>

\* ------------------------------------------------------------------------
\* Further properties of the confidence score
\* ------------------------------------------------------------------------
\* C16: with the number of searches with results kept fixed, the score for
\* fewer fields found is never higher than the score for more fields found.
C16_MonotoneInFields ==
    confidence # NotComputed =>
        \A f1 \in 0..FieldsFound :
            ConfidenceOf(f1, ProductiveSearches) <= confidence

\* a call past the cap of the data sub-score whose score is above that of a
\* call with fewer fields and as high as that of a call with five
C16_Witness ==
    /\ confidence # NotComputed
    /\ FieldsFound = 6
    /\ ProductiveSearches = 3
    /\ ConfidenceOf(1, 3) < confidence
    /\ ConfidenceOf(5, 3) = confidence

\* ------------------------------------------------------------------------
\* Properties of the pattern lists
\* ------------------------------------------------------------------------
FatturatoPatterns == <<"fatturato", "ricavi">>

\* the patterns of a list that match somewhere in the text
Matching(patterns, text) ==
    {j \in 1..Len(patterns) : Contains(patterns[j], text)}

\* what the first pattern of the list that matches captures in the text
FirstInPriority(patterns, text) ==
    ReSearch(patterns[Min(Matching(patterns, text))], text).group

\* C17: when two patterns of a field's list both match the input, the value
\* extracted is the one captured by the pattern that comes first in the list
\* (fatturato before ricavi, the market share patterns in their order).
C17_FirstPatternWins ==
    (call # EmptyDict /\ returned.called /\ "raised" \notin DOMAIN returned) =>
        /\ (/\ call.fn = "extract_market_share"
            /\ Cardinality(Matching(MarketSharePatterns, call.text)) >= 2)
              => returned.value =
                    Strip(FirstInPriority(MarketSharePatterns, call.text))
        /\ (/\ call.fn = "extract_data_from_results"
            /\ call.agent_name = "financial_agent"
            /\ Cardinality(Matching(FatturatoPatterns,
                                    AllContent(call.results))) >= 2)
              => Get(returned.value, "fatturato", <<>>) =
                    FirstInPriority(FatturatoPatterns, AllContent(call.results))
                        \o MilioniSuffix

\* ------------------------------------------------------------------------
\* Properties of the numeric extraction
\* ------------------------------------------------------------------------
\* what the pattern captured in the text of the call, if the text is a string
\* and the pattern matches
Captured == ReSearch(call.pattern, call.text.s).group
HasCapture == IsStr(call.text) /\ Contains(call.pattern, call.text.s)

\* the capture without its '.' and ',' characters
Unseparated ==
    LET NoSeparator(c) == c \notin {".", ","} IN SelectSeq(Captured, NoSeparator)

\* C18: extract_number_from_text never raises; it returns the integer read
\* from the captured text with every '.' and ',' removed when the pattern
\* matches and the rest parses as an integer, and the default otherwise (no
\* match, a capture that is no number, a text that is no string).
C18_NumberOrDefault ==
    (call # EmptyDict /\ call.fn = "extract_number_from_text"
        /\ returned.called) =>
        /\ "raised" \notin DOMAIN returned
        /\ returned.value =
              IF HasCapture /\ PyInt(Unseparated).ok
              THEN PyInt(Unseparated).value
              ELSE call.default

\* '1.0' and '1,0' are both read as 10, a capture of no digit gives the default
C18_Witness ==
    /\ call # EmptyDict
    /\ call.fn = "extract_number_from_text"
    /\ returned.called
    /\ HasCapture
    /\ Captured = <<"1", ".", "0">>
    /\ returned.value = 10
    /\ call.default = 15000

\* ------------------------------------------------------------------------
\* Properties of the cache
\* ------------------------------------------------------------------------
\* the latest set of the key happened less than ttl seconds before the time
SetRecently(key, at) ==
    key \in DOMAIN last_set /\ at - last_set[key].at < ttl

\* C19: a get returns a value only if the latest set of its key stored that
\* value less than ttl seconds earlier, and None in every other case; an
\* entry the get finds expired is gone from the cache afterwards; after
\* clear the cache is empty.
C19_TtlCache ==
    /\ cache_op.op = "get" =>
          /\ cache_op.value # PyNone =>
                /\ SetRecently(cache_op.key, cache_op.at)
                /\ cache_op.value = last_set[cache_op.key].value
          /\ ~SetRecently(cache_op.key, cache_op.at) =>
                /\ cache_op.value = PyNone
                /\ cache_op.key \notin DOMAIN cache
    /\ cache_op.op = "clear" => cache = EmptyDict

\* a get one second before expiry, of a key whose value was overwritten,
\* while the other key's entry is still held
C19_Witness ==
    /\ cache_op.op = "get"
    /\ cache_op.value = "b"
    /\ ttl = 2
    /\ cache_op.at - last_set[cache_op.key].at = 1
    /\ Cardinality(DOMAIN cache) = 2

\* a get that found its entry expired and removed it
C19_ExpiredWitness ==
    /\ cache_op.op = "get"
    /\ cache_op.value = PyNone
    /\ cache_op.key \in DOMAIN last_set
    /\ cache_op.at - last_set[cache_op.key].at = ttl
    /\ ttl > 0
    /\ cache_op.key \notin DOMAIN cache

\* ------------------------------------------------------------------------
\* Properties of the retry wrapper
\* ------------------------------------------------------------------------
Invoked == Len(invocations)

\* the failed invocations that were not the last one allowed
FailedBeforeLast ==
    {i \in 1..Invoked : ~invocations[i].ok /\ i < retry.max_retries}

\* C20: with max_retries = n >= 1 the wrapped function is invoked at most n
\* times; the first success is returned and nothing is invoked after it; when
\* all n invocations fail the exception of the n-th is raised; after failed
\* attempt k (counted from 0) the wrapper sleeps delay * 2^k, and only when
\* another attempt follows.
C20_RetryPolicy ==
    (retry # EmptyDict /\ retry.max_retries >= 1) =>
        /\ Invoked <= retry.max_retries
        /\ \A i \in 1..(Invoked - 1) : ~invocations[i].ok
        /\ (Invoked > 0 /\ invocations[Invoked].ok) =>
              retry_out = WrapperReturned(invocations[Invoked])
        /\ (Invoked = retry.max_retries /\ ~invocations[Invoked].ok) =>
              retry_out = WrapperRaised(invocations[Invoked])
        /\ retry_out.called =>
              \/ invocations[Invoked].ok
              \/ Invoked = retry.max_retries
        /\ Len(sleeps) = Cardinality(FailedBeforeLast)
        /\ \A k \in 1..Len(sleeps) : sleeps[k] = retry.delay * 2 ^ (k - 1)

\* three attempts fail with different exceptions: the third one's is raised,
\* after sleeps of delay and twice the delay
C20_Witness ==
    /\ retry # EmptyDict
    /\ retry.max_retries = 3
    /\ retry.delay = 2
    /\ Invoked = 3
    /\ invocations[1].exception = "ConnectionError"
    /\ retry_out = WrapperRaised(InvocationFailed(3, "ValueError"))
    /\ sleeps = <<2, 4>>

\* the HTTP requests get_page has sent
Requests == {i \in 1..Invoked : "request" \in DOMAIN invocations[i]}

\* C21: get_page fetches with retry: when its HTTP request fails (raises or
\* returns an error status) the request is attempted again, and get_page
\* gives up on a failing page only after 3 attempts in total.
C21_GetPageRetriesFailedRequest ==
    (/\ retry # EmptyDict
     /\ retry.func = "get_page"
     /\ retry_out.called
     /\ invocations[Invoked].request # "ok") =>
        Cardinality(Requests) = GetPageRetries

\* ------------------------------------------------------------------------
\* Properties of the rate limiter
\* ------------------------------------------------------------------------
\* what can_make_request would return at the time of the latest call
WouldAccept ==
    UnderLimit(Len(Recent(requests, limiter_op.at, limiter.time_window)),
               limiter.max_requests)

\* C22: wait_time returns 0 whenever can_make_request would return True at
\* the same instant, and a positive value only when max_requests requests
\* are recorded within the current window.
C22_WaitTimeIsNecessary ==
    (limiter # EmptyDict /\ limiter_op.op = "wait_time") =>
        /\ WouldAccept => limiter_op.value = 0
        /\ limiter_op.value > 0 =>
              Len(Recent(requests, limiter_op.at, limiter.time_window))
                  >= limiter.max_requests

\* the accepted requests whose timestamp lies in (t - time_window, t]
InWindowOf(t) ==
    {j \in 1..Len(accepted) :
        accepted[j] > t - limiter.time_window /\ accepted[j] <= t}

\* C23: under a clock that does not run backwards, for every accepted request
\* at time t at most max_requests accepted requests have a timestamp in
\* (t - time_window, t], and a make_request that returns False records nothing.
C23_WindowNeverOverfull ==
    limiter # EmptyDict =>
        /\ \A i \in 1..Len(accepted) :
              Cardinality(InWindowOf(accepted[i])) <= limiter.max_requests
        /\ (limiter_op.op = "make_request" /\ ~limiter_op.value) =>
              Len(accepted) = limiter_op.accepted_before

\* the window is full at the latest accepted request, an older request has
\* left it, and a further make_request has just been refused
C23_Witness ==
    /\ limiter # EmptyDict
    /\ limiter.max_requests = 2
    /\ limiter.time_window = 2
    /\ Len(accepted) = 3
    /\ Cardinality(InWindowOf(accepted[3])) = 2
    /\ limiter_op.op = "make_request"
    /\ ~limiter_op.value
    /\ limiter_op.at = accepted[3]

\* ------------------------------------------------------------------------
\* Properties of the assistant runs
\* ------------------------------------------------------------------------
\* C24: run_assistant_analysis returns success=True only if the run it
\* polled ended in status completed; a run that ended failed, cancelled or
\* expired yields success=False.
C24_SuccessOnlyIfCompleted ==
    (analysis_out.called /\ analysis_out.success) => seen = "completed"

ObservedCalls == observed.tool_calls
Outputs == submitted.tool_outputs

\* C25: each time the loop sees requires_action it submits exactly one output
\* per requested tool call, in the order of the calls and each with its
\* call's id; a call of a function without a handler gets an error output and
\* does not end the analysis.
C25_OneOutputPerToolCall ==
    observed.round > 0 =>
        /\ submitted.round = observed.round
        /\ Len(Outputs) = Len(ObservedCalls)
        /\ \A i \in 1..Len(ObservedCalls) :
              /\ Outputs[i].tool_call_id = ObservedCalls[i].id
              /\ ObservedCalls[i].name \notin HandledFunctions =>
                    Outputs[i].output = "not implemented"
        /\ (\E i \in 1..Len(ObservedCalls) :
                ObservedCalls[i].name \notin HandledFunctions) =>
              analysis_out # AnalysisFailure("exception")

\* C26: every function tool declared to an assistant has a handler in the
\* dispatch of the loop: no call of a declared tool is answered with the
\* "not implemented" error output.
C26_DeclaredToolsHandled ==
    (assistant # EmptyDict /\ submitted.round > 0
        /\ submitted.round = observed.round) =>
        \A i \in 1..Len(Outputs) :
            ObservedCalls[i].name \in DeclaredTools(assistant.kind) =>
                Outputs[i].output # "not implemented"

RunIsLive == vendor_run.status \in {"queued", "in_progress", "requires_action"}
Returned == analysis_out.called

MaxConfidence(agent_name) ==
    CASE agent_name = "financial_agent" -> 75
      [] agent_name \in {"digital_agent", "social_agent"} -> 45
      [] OTHER -> 25

\* the score for every number of fields an agent's patterns can put into
\* data_found and every number of its queries that can have results
ConfidenceTable ==
    [a \in Agents |->
        [f \in 0..Len(FieldTexts(a)) |->
            [q \in 0..NumQueries(a) |-> ConfidenceOf(f, q)]]]

QualityComputed == pc = "done"

\* C28: no agent's confidence_score exceeds 0.75 (financial 0.75, digital and
\* social 0.45, competitor and company 0.25), so overall_score is below 0.8
\* and quality_level is never Eccellente.
C28_NeverEccellente ==
    /\ \A a \in Agents :
          \A f \in 0..Len(FieldTexts(a)), q \in 0..NumQueries(a) :
              ConfidenceTable[a][f][q] <= MaxConfidence(a)
    /\ \A i \in 1..Len(Items) :
          ~IsError(Items[i].result) =>
              /\ Cardinality(DOMAIN Items[i].result.data_extracted)
                    <= Len(FieldTexts(Items[i].agent))
              /\ Items[i].result.confidence_score <= MaxConfidence(Items[i].agent)
    /\ QualityComputed =>
          /\ Metrics.overall_score < 80
          /\ Metrics.quality_level # "Eccellente"

\* the financial agent alone succeeded, with its four fields found and its
\* seven queries productive: the highest overall_score there is
C28_Witness ==
    /\ QualityComputed
    /\ \A i \in 1..Len(Items) :
          IsError(Items[i].result) <=> Items[i].agent # "financial_agent"
    /\ Metrics.agent_scores["financial_agent"] = 75
    /\ Metrics.overall_score = 75
    /\ Metrics.quality_level = "Buona"

\* ------------------------------------------------------------------------
\* Properties of the consolidated record
\* ------------------------------------------------------------------------
\* agents_results with the error-marked agents removed
WithoutFailed(items) ==
    LET NotFailed(item) == ~IsError(item.result)
    IN SelectSeq(items, NotFailed)

ConsolidationDone == pc \in {"metrics", "done"}

\* C29: a failed aspect contributes nothing to the consolidated record: the
\* sections and all_sources are those that consolidate_agents_data produces
\* for the same results with the error-marked agents removed, and the section
\* of a failed agent stays empty.
C29_FailedContributeNothing ==
    ConsolidationDone =>
        /\ analysis_results.consolidated_data
              = ConsolidateAgentsData(WithoutFailed(Items))
        /\ \A i \in 1..Len(Items) :
              IsError(Items[i].result) =>
                  analysis_results.consolidated_data[SectionOf(Items[i].agent)]
                      = EmptyDict

\* a failed agent stands between two successful ones, both of which left
\* data and sources in the record
C29_Witness ==
    /\ ConsolidationDone
    /\ \E i, j, k \in 1..Len(Items) :
          /\ i < j /\ j < k
          /\ IsError(Items[j].result)
          /\ ~IsError(Items[i].result) /\ ~IsError(Items[k].result)
          /\ analysis_results.consolidated_data[SectionOf(Items[i].agent)] # EmptyDict
          /\ analysis_results.consolidated_data[SectionOf(Items[k].agent)] # EmptyDict
          /\ Len(analysis_results.consolidated_data.all_sources) >= 2

====
